---- MODULE Spec2Model ----
(***************************************************************************)
(* State-machine model of the decision / risk / position core of the       *)
(* KuCoin trading bot: RiskManager, OrderManager, PositionManager,         *)
(* BasicStrategy.generate_signal and TradingEngine.process_signal.         *)
(*                                                                         *)
(* Numbers.  Prices are whole price ticks.  Order sizes are counted in     *)
(* size units, Increment of which make one lot-size increment of the       *)
(* exchange, so that a size below one increment exists.  A notional or a   *)
(* pnl is size units times price ticks.  The stop-loss and take-profit     *)
(* levels are kept in hundredths of a tick (price * (100 -/+ pct)), which  *)
(* makes the percentage arithmetic exact.                                  *)
(***************************************************************************)
EXTENDS Integers, Sequences, FiniteSets, TLC

(***************************************************************************)
(* Bounds of the model.                                                    *)
(***************************************************************************)
MaxPrice == 2
MaxSize == 3
MaxOrders == 3
MaxEngineOrders == 2
MaxBalance == 2
\* the prices (-MaxSizingPrice..MaxSizingPrice) and balances that
\* calculate_position_size is applied to on its own
MaxSizingPrice == 5
MaxSizingBalance == 10
\* the sizes (1..MaxFormatSize) that format_size is applied to on its own
MaxFormatSize == 60
\* the trades record_trade is given on its own: how many, and the largest
\* pnl of one
MaxRecords == 3
MaxPnl == 2
\* the clock of the run loop: ticks in a minute, minutes in a day, and the
\* longest time, in ticks, that processing one symbol takes
TicksPerMinute == 2
MinutesPerDay == 2
MaxSymbolTicks == 1
\* entry prices of the exit checks, in multiples of ExitEntryStep, and the
\* number of update_position calls before them
MaxExitEntries == 1
MaxExitUpdates == 3
\* position limits, prices and balances (as powers of two) of the sizing
\* in floating point
MaxRoundingLimit == 8
MaxRoundingPrice == 28
MaxRoundingBalanceExp == 4

(***************************************************************************)
(* Program constants and configuration.                                    *)
(***************************************************************************)
\* trading_pairs: the default of Config.TRADING_PAIRS
Symbols == {"BTC-USDT", "ETH-USDT"}
\* ... in the order the run loop visits them
trading_pairs == <<"BTC-USDT", "ETH-USDT">>
\* size units per lot-size increment ('0.000001' in format_size)
Increment == 2
\* the least size, in size units, whose quantized value has more digits
\* than the decimal context holds (28 digits, six of them decimals: 10^22)
DecimalLimit == 40
\* TradingEngine.min_trade_interval (Config.MIN_TRADE_INTERVAL), in ticks
min_trade_interval == 2
\* RiskManager limits, fixed at construction
max_position_size == 4
max_daily_loss == 2
max_trades_per_day == 2
stop_loss_pct == 2
take_profit_pct == 4

\* Python's None, for an order id, a formatted size or a call's result
None == -1

Prices == 1..MaxPrice
Sizes == 1..MaxSize
Sides == {"buy", "sell"}

VARIABLES
    daily_trades,     \* RiskManager.daily_trades
    daily_loss,       \* RiskManager.daily_loss
    open_positions,   \* RiskManager.open_positions: dict symbol -> risk record
    positions,        \* PositionManager.positions: dict symbol -> position
    open_orders,      \* OrderManager.open_orders: the order ids it tracks
    next_order_id,    \* the id the exchange gives to the next order it accepts
    trades_history,   \* TradingEngine.trades_history
    performance_metrics,  \* TradingEngine.performance_metrics: its counters
    last_trade_time,  \* TradingEngine.last_trade_time: for each symbol in it,
                      \* the ticks since then, counted up to min_trade_interval
    is_running,       \* TradingEngine.is_running
    pc,               \* where run() is: "init", "for", "update", "sleep", "done"
    symbol_index,     \* the index in trading_pairs the for loop of run() is at
    now,              \* the time of day, in ticks since midnight
    web_thread,       \* TradingEngine.web_thread: "none", "alive", "ended"
    stop_call,        \* a call of stop(): where it is and the thread it runs on
    cycle,            \* history: the symbols processed and faulted this cycle
    midnight,         \* history: the last midnight of the loop and its resets
    in_flight,        \* the open_position and close_position calls in progress
    last              \* the last call: its arguments, what it sent, its result

\* the run loop, stop() and the history kept for them
loopVars == <<is_running, pc, symbol_index, now, web_thread, stop_call, cycle,
              midnight, in_flight>>

vars == <<daily_trades, daily_loss, open_positions, positions, open_orders,
          next_order_id, trades_history, performance_metrics,
          last_trade_time, last,
          is_running, pc, symbol_index, now, web_thread, stop_call, cycle,
          midnight, in_flight>>

\* the program's own state, without the record of the last call
progVars == <<daily_trades, daily_loss, open_positions, positions, open_orders,
              trades_history, performance_metrics, last_trade_time>>

(***************************************************************************)
(* Python dicts as functions with a varying domain.                        *)
(***************************************************************************)
EmptyDict == [k \in {} |-> None]

Put(d, k, v) == [x \in (DOMAIN d) \cup {k} |-> IF x = k THEN v ELSE d[x]]

Del(d, k) == [x \in (DOMAIN d) \ {k} |-> d[x]]

(***************************************************************************)
(* The state the methods read and write, as one record, so that a method   *)
(* is an operator from a state to a state and a handler is a composition.  *)
(* sent collects the orders the call in progress hands to the exchange.    *)
(***************************************************************************)
Cur ==
    [daily_trades |-> daily_trades, daily_loss |-> daily_loss,
     open_positions |-> open_positions, positions |-> positions,
     open_orders |-> open_orders, next_order_id |-> next_order_id,
     trades_history |-> trades_history,
     performance_metrics |-> performance_metrics,
     last_trade_time |-> last_trade_time, sent |-> <<>>]

(***************************************************************************)
(* RiskManager                                                             *)
(***************************************************************************)
\* a stop-loss level that takes nothing off the price
StopLossLevel_at_entry(price) == price * 100

\* current_price * (1 - stop_loss_pct/100), in hundredths
StopLossLevel(price) == price * (100 - stop_loss_pct)

\* current_price * (1 + take_profit_pct/100), in hundredths
TakeProfitLevel(price) == price * (100 + take_profit_pct)

\* check_trade_allowed with the daily-loss test written > for >=
check_trade_allowed_loss_gt(st, symbol, side, size, current_price) ==
    IF st.daily_trades >= max_trades_per_day
    THEN [allowed |-> FALSE, reason |-> "Maximum daily trades reached"]
    ELSE IF st.daily_loss > max_daily_loss
    THEN [allowed |-> FALSE, reason |-> "Maximum daily loss reached"]
    ELSE IF size * current_price > max_position_size
    THEN [allowed |-> FALSE, reason |-> "Position size exceeds maximum allowed"]
    ELSE [allowed |-> TRUE, reason |-> "",
          stop_loss |-> StopLossLevel(current_price),
          take_profit |-> TakeProfitLevel(current_price)]

\* check_trade_allowed with the daily-trades test written > for >=
check_trade_allowed_trades_gt(st, symbol, side, size, current_price) ==
    IF st.daily_trades > max_trades_per_day
    THEN [allowed |-> FALSE, reason |-> "Maximum daily trades reached"]
    ELSE IF st.daily_loss >= max_daily_loss
    THEN [allowed |-> FALSE, reason |-> "Maximum daily loss reached"]
    ELSE IF size * current_price > max_position_size
    THEN [allowed |-> FALSE, reason |-> "Position size exceeds maximum allowed"]
    ELSE [allowed |-> TRUE, reason |-> "",
          stop_loss |-> StopLossLevel(current_price),
          take_profit |-> TakeProfitLevel(current_price)]

\* check_trade_allowed that tests the daily loss before the daily trades
check_trade_allowed_loss_first(st, symbol, side, size, current_price) ==
    IF st.daily_loss >= max_daily_loss
    THEN [allowed |-> FALSE, reason |-> "Maximum daily loss reached"]
    ELSE IF st.daily_trades >= max_trades_per_day
    THEN [allowed |-> FALSE, reason |-> "Maximum daily trades reached"]
    ELSE IF size * current_price > max_position_size
    THEN [allowed |-> FALSE, reason |-> "Position size exceeds maximum allowed"]
    ELSE [allowed |-> TRUE, reason |-> "",
          stop_loss |-> StopLossLevel(current_price),
          take_profit |-> TakeProfitLevel(current_price)]

check_trade_allowed(st, symbol, side, size, current_price) ==
    IF st.daily_trades >= max_trades_per_day
    THEN [allowed |-> FALSE, reason |-> "Maximum daily trades reached"]
    ELSE IF st.daily_loss >= max_daily_loss
    THEN [allowed |-> FALSE, reason |-> "Maximum daily loss reached"]
    ELSE IF size * current_price > max_position_size
    THEN [allowed |-> FALSE, reason |-> "Position size exceeds maximum allowed"]
    ELSE [allowed |-> TRUE, reason |-> "",
          stop_loss |-> StopLossLevel(current_price),
          take_profit |-> TakeProfitLevel(current_price)]

\* update_position without the sell branch: the record outlives the close
update_position_keeps_record(st, symbol, side, size, entry_price) ==
    [st EXCEPT
        !.open_positions =
            IF side = "buy"
            THEN Put(@, symbol,
                     [size |-> size, entry_price |-> entry_price,
                      stop_loss |-> StopLossLevel(entry_price),
                      take_profit |-> TakeProfitLevel(entry_price)])
            ELSE @,
        !.daily_trades = @ + 1]

\* update_position that counts the buys only
update_position_counts_buys(st, symbol, side, size, entry_price) ==
    [st EXCEPT
        !.open_positions =
            IF side = "buy"
            THEN Put(@, symbol,
                     [size |-> size, entry_price |-> entry_price,
                      stop_loss |-> StopLossLevel(entry_price),
                      take_profit |-> TakeProfitLevel(entry_price)])
            ELSE IF side = "sell" /\ symbol \in DOMAIN @
            THEN Del(@, symbol)
            ELSE @,
        !.daily_trades = IF side = "buy" THEN @ + 1 ELSE @]

update_position(st, symbol, side, size, entry_price) ==
    [st EXCEPT
        !.open_positions =
            IF side = "buy"
            THEN Put(@, symbol,
                     [size |-> size, entry_price |-> entry_price,
                      stop_loss |-> StopLossLevel(entry_price),
                      take_profit |-> TakeProfitLevel(entry_price)])
            ELSE IF side = "sell" /\ symbol \in DOMAIN @
            THEN Del(@, symbol)
            ELSE @,
        !.daily_trades = @ + 1]

\* check_exit_signals that exits only beyond the levels, not at them
check_exit_signals_strict(st, symbol, current_price) ==
    IF symbol \notin DOMAIN st.open_positions
    THEN "None"
    ELSE IF current_price * 100 < st.open_positions[symbol].stop_loss
    THEN "stop_loss"
    ELSE IF current_price * 100 > st.open_positions[symbol].take_profit
    THEN "take_profit"
    ELSE "None"

\* check_exit_signals without the take-profit branch
check_exit_signals_stop_only(st, symbol, current_price) ==
    IF symbol \notin DOMAIN st.open_positions
    THEN "None"
    ELSE IF current_price * 100 <= st.open_positions[symbol].stop_loss
    THEN "stop_loss"
    ELSE "None"

check_exit_signals(st, symbol, current_price) ==
    IF symbol \notin DOMAIN st.open_positions
    THEN "None"
    ELSE IF current_price * 100 <= st.open_positions[symbol].stop_loss
    THEN "stop_loss"
    ELSE IF current_price * 100 >= st.open_positions[symbol].take_profit
    THEN "take_profit"
    ELSE "None"

update_daily_loss(st, loss_amount) ==
    [st EXCEPT !.daily_loss = @ + loss_amount]

\* reset_daily_metrics that forgets the trade counter
reset_daily_metrics_keeps_trades(st) ==
    [st EXCEPT !.daily_loss = 0]

reset_daily_metrics(st) ==
    [st EXCEPT !.daily_loss = 0, !.daily_trades = 0]

(***************************************************************************)
(* OrderManager                                                            *)
(***************************************************************************)
\* format_size that rounds to the nearest step above
format_size_up(size) ==
    IF size >= DecimalLimit
    THEN None
    ELSE ((size + Increment - 1) \div Increment) * Increment

\* Decimal(str(size)).quantize(Decimal(increment), rounding=ROUND_DOWN),
\* returned as a string: the value of that string, in size units.  quantize
\* raises InvalidOperation when the result has more digits than the
\* context's precision, and the except branch returns None.
format_size(size) ==
    IF size >= DecimalLimit
    THEN None
    ELSE (size \div Increment) * Increment

\* Python's truth value of what format_size returns: None is false, a
\* string is false only when empty, and str() of a Decimal is never empty
\* ("0.000000" is true).
Truthy(formatted_size) == formatted_size # None

\* The exchange adapter (KucoinClient.place_market_*_order): accepted is
\* its answer to the order, were it sent; the result is the order
\* ({'orderId': ...}), here its id, or None.
AdapterOrder(st, side, accepted) ==
    IF accepted THEN st.next_order_id ELSE None

Send(st, side, symbol, formatted_size, accepted) ==
    [st EXCEPT
        !.sent = Append(@, [side |-> side, symbol |-> symbol,
                            size |-> formatted_size, accepted |-> accepted]),
        !.next_order_id = IF accepted THEN @ + 1 ELSE @]

\* place_market_buy that updates the risk manager before it looks at the
\* order the exchange returned
place_market_buy_eager(st, symbol, size, current_price, accepted) ==
    LET trade_check == check_trade_allowed(st, symbol, "buy", size, current_price)
        formatted_size == format_size(size)
        order == AdapterOrder(st, "buy", accepted)
        st1 == Send(st, "buy", symbol, formatted_size, accepted)
        st2 == update_position(st1, symbol, "buy", formatted_size, current_price)
    IN  IF ~trade_check.allowed
        THEN [st |-> st, ret |-> None]
        ELSE IF ~Truthy(formatted_size)
        THEN [st |-> st, ret |-> None]
        ELSE IF order # None
        THEN [st |-> [st2 EXCEPT !.open_orders = @ \cup {order}],
              ret |-> order]
        ELSE [st |-> st2, ret |-> None]

place_market_buy(st, symbol, size, current_price, accepted) ==
    LET trade_check == check_trade_allowed(st, symbol, "buy", size, current_price)
        formatted_size == format_size(size)
        order == AdapterOrder(st, "buy", accepted)
        st1 == Send(st, "buy", symbol, formatted_size, accepted)
        st2 == update_position(st1, symbol, "buy", formatted_size, current_price)
    IN  IF ~trade_check.allowed
        THEN [st |-> st, ret |-> None]
        ELSE IF ~Truthy(formatted_size)
        THEN [st |-> st, ret |-> None]
        ELSE IF order # None
        THEN [st |-> [st2 EXCEPT !.open_orders = @ \cup {order}],
              ret |-> order]
        ELSE [st |-> st1, ret |-> None]

\* place_market_sell that books the loss and the trade before it looks at
\* the order the exchange returned
place_market_sell_eager(st, symbol, size, current_price, accepted) ==
    LET formatted_size == format_size(size)
        order == AdapterOrder(st, "sell", accepted)
        st1 == Send(st, "sell", symbol, formatted_size, accepted)
        pnl == (current_price - st1.open_positions[symbol].entry_price)
                  * formatted_size
        st2 == IF symbol \in DOMAIN st1.open_positions /\ pnl < 0
               THEN update_daily_loss(st1, -pnl)
               ELSE st1
        st3 == update_position(st2, symbol, "sell", formatted_size,
                               current_price)
    IN  IF ~Truthy(formatted_size)
        THEN [st |-> st, ret |-> None]
        ELSE [st |-> st3, ret |-> order]

\* place_market_sell that books the pnl of every sell, without the test
\* that it is a loss
place_market_sell_signed(st, symbol, size, current_price, accepted) ==
    LET formatted_size == format_size(size)
        order == AdapterOrder(st, "sell", accepted)
        st1 == Send(st, "sell", symbol, formatted_size, accepted)
        pnl == (current_price - st1.open_positions[symbol].entry_price)
                  * formatted_size
        st2 == IF symbol \in DOMAIN st1.open_positions
               THEN update_daily_loss(st1, -pnl)
               ELSE st1
    IN  IF ~Truthy(formatted_size)
        THEN [st |-> st, ret |-> None]
        ELSE IF order # None
        THEN [st |-> update_position(st2, symbol, "sell", formatted_size,
                                     current_price),
              ret |-> order]
        ELSE [st |-> st1, ret |-> None]

\* place_market_sell that books the gain of a sell as a loss, too
place_market_sell_books_gains(st, symbol, size, current_price, accepted) ==
    LET formatted_size == format_size(size)
        order == AdapterOrder(st, "sell", accepted)
        st1 == Send(st, "sell", symbol, formatted_size, accepted)
        pnl == (current_price - st1.open_positions[symbol].entry_price)
                  * formatted_size
        st2 == IF symbol \in DOMAIN st1.open_positions
               THEN update_daily_loss(st1, IF pnl < 0 THEN -pnl ELSE pnl)
               ELSE st1
    IN  IF ~Truthy(formatted_size)
        THEN [st |-> st, ret |-> None]
        ELSE IF order # None
        THEN [st |-> update_position(st2, symbol, "sell", formatted_size,
                                     current_price),
              ret |-> order]
        ELSE [st |-> st1, ret |-> None]

\* place_market_sell that asks the risk manager first, as a buy does
place_market_sell_gated(st, symbol, size, current_price, accepted) ==
    LET trade_check == check_trade_allowed(st, symbol, "sell", size,
                                           current_price)
        formatted_size == format_size(size)
        order == AdapterOrder(st, "sell", accepted)
        st1 == Send(st, "sell", symbol, formatted_size, accepted)
        pnl == (current_price - st1.open_positions[symbol].entry_price)
                  * formatted_size
        st2 == IF symbol \in DOMAIN st1.open_positions /\ pnl < 0
               THEN update_daily_loss(st1, -pnl)
               ELSE st1
    IN  IF ~trade_check.allowed
        THEN [st |-> st, ret |-> None]
        ELSE IF ~Truthy(formatted_size)
        THEN [st |-> st, ret |-> None]
        ELSE IF order # None
        THEN [st |-> update_position(st2, symbol, "sell", formatted_size,
                                     current_price),
              ret |-> order]
        ELSE [st |-> st1, ret |-> None]

place_market_sell(st, symbol, size, current_price, accepted) ==
    LET formatted_size == format_size(size)
        order == AdapterOrder(st, "sell", accepted)
        st1 == Send(st, "sell", symbol, formatted_size, accepted)
        pnl == (current_price - st1.open_positions[symbol].entry_price)
                  * formatted_size
        st2 == IF symbol \in DOMAIN st1.open_positions /\ pnl < 0
               THEN update_daily_loss(st1, -pnl)
               ELSE st1
    IN  IF ~Truthy(formatted_size)
        THEN [st |-> st, ret |-> None]
        ELSE IF order # None
        THEN [st |-> update_position(st2, symbol, "sell", formatted_size,
                                     current_price),
              ret |-> order]
        ELSE [st |-> st1, ret |-> None]

(***************************************************************************)
(* PositionManager                                                         *)
(***************************************************************************)
open_position(st, symbol, size, current_price, accepted) ==
    LET r == place_market_buy(st, symbol, size, current_price, accepted)
    IN  IF r.ret # None
        THEN [st |-> [r.st EXCEPT !.positions =
                         Put(@, symbol, [size |-> size,
                                         entry_price |-> current_price,
                                         order_id |-> r.ret])],
              ret |-> r.ret]
        ELSE [st |-> r.st, ret |-> None]

\* close_position without the check that the symbol has a position: the
\* size of a missing position reads as 0
close_position_unguarded(st, symbol, current_price, accepted) ==
    LET size == IF symbol \in DOMAIN st.positions
                THEN st.positions[symbol].size
                ELSE 0
        r == place_market_sell(st, symbol, size, current_price, accepted)
    IN  IF r.ret # None
        THEN [st |-> [r.st EXCEPT !.positions = Del(@, symbol)],
              ret |-> r.ret]
        ELSE [st |-> r.st, ret |-> None]

close_position(st, symbol, current_price, accepted) ==
    IF symbol \notin DOMAIN st.positions
    THEN [st |-> st, ret |-> None]
    ELSE LET r == place_market_sell(st, symbol, st.positions[symbol].size,
                                    current_price, accepted)
         IN  IF r.ret # None
             THEN [st |-> [r.st EXCEPT !.positions = Del(@, symbol)],
                   ret |-> r.ret]
             ELSE [st |-> r.st, ret |-> None]


\* The symbols of list(self.positions.keys()) are visited one after the
\* other; closes of different symbols touch different dict entries and add
\* to the same counters, so the result is the same in every order.
RECURSIVE check_positions_loop(_, _, _, _)
check_positions_loop(st, todo, current_prices, accepted) ==
    IF todo = {}
    THEN st
    ELSE LET symbol == CHOOSE s \in todo : TRUE
             exit_signal ==
                 check_exit_signals(st, symbol, current_prices[symbol])
             st1 == IF symbol \in DOMAIN current_prices /\ exit_signal # "None"
                    THEN close_position(st, symbol, current_prices[symbol],
                                        accepted[symbol]).st
                    ELSE st
         IN  check_positions_loop(st1, todo \ {symbol}, current_prices, accepted)

check_positions(st, current_prices, accepted) ==
    check_positions_loop(st, DOMAIN st.positions, current_prices, accepted)

(***************************************************************************)
(* RiskManager.calculate_position_size.  The result is a real number in    *)
(* the code; the model keeps its whole size units, rounded down.  A zero   *)
(* price raises ZeroDivisionError, which the except branch turns into 0;   *)
(* a negative price raises nothing.                                        *)
(***************************************************************************)
\* risk_per_trade = 0.02, in percent
risk_per_trade_pct == 2

Min(a, b) == IF a <= b THEN a ELSE b

\* a / b rounded down, for b # 0
FloorDiv(a, b) == IF b > 0 THEN a \div b ELSE (-a) \div (-b)

\* calculate_position_size without the max_position_size term
calculate_position_size_uncapped(account_balance, current_price) ==
    IF current_price = 0
    THEN 0
    ELSE FloorDiv(account_balance * risk_per_trade_pct,
                  current_price * stop_loss_pct)

calculate_position_size(account_balance, current_price) ==
    IF current_price = 0
    THEN 0
    ELSE Min(FloorDiv(account_balance * risk_per_trade_pct,
                      current_price * stop_loss_pct),
             FloorDiv(max_position_size, current_price))

(***************************************************************************)
(* BasicStrategy.generate_signal                                           *)
(***************************************************************************)
Votes == {"BUY", "SELL", "HOLD"}

\* the keys in the order generate_signal looks them up
SignalKeys == <<"rsi_signal", "macd_signal", "bb_signal", "ema_signal">>

\* An analysis dict: its sub-signals, and whether it holds any other key
\* (current_price).  None and the empty dict are the analysis without both.
NoAnalysis == [signals |-> EmptyDict, other |-> FALSE]

Analyses ==
    UNION {[signals : [keys -> Votes], other : BOOLEAN] :
              keys \in SUBSET {SignalKeys[i] : i \in 1..Len(SignalKeys)}}

\* signals.append(analysis[key]) for every key present, in order
RECURSIVE collect_signals(_, _)
collect_signals(analysis, i) ==
    IF i > Len(SignalKeys)
    THEN <<>>
    ELSE IF SignalKeys[i] \in DOMAIN analysis.signals
    THEN <<analysis.signals[SignalKeys[i]]>> \o collect_signals(analysis, i + 1)
    ELSE collect_signals(analysis, i + 1)

\* list.count(value)
Count(signals, value) == Len(SelectSeq(signals, LAMBDA v : v = value))

\* generate_signal with the majority tests written >= for >
generate_signal_half(analysis) ==
    LET signals == collect_signals(analysis, 1)
        buy_count == Count(signals, "BUY")
        sell_count == Count(signals, "SELL")
    IN  IF DOMAIN analysis.signals = {} /\ ~analysis.other
        THEN "HOLD"
        ELSE IF signals = <<>>
        THEN "HOLD"
        ELSE IF 2 * buy_count >= Len(signals)
        THEN "BUY"
        ELSE IF 2 * sell_count >= Len(signals)
        THEN "SELL"
        ELSE "HOLD"

generate_signal(analysis) ==
    LET signals == collect_signals(analysis, 1)
        buy_count == Count(signals, "BUY")
        sell_count == Count(signals, "SELL")
    IN  IF DOMAIN analysis.signals = {} /\ ~analysis.other
        THEN "HOLD"
        ELSE IF signals = <<>>
        THEN "HOLD"
        \* buy_count > len(signals) / 2, a true division
        ELSE IF 2 * buy_count > Len(signals)
        THEN "BUY"
        ELSE IF 2 * sell_count > Len(signals)
        THEN "SELL"
        ELSE "HOLD"

(***************************************************************************)
(* TradingEngine                                                           *)
(***************************************************************************)
\* The averages and ratios of the metrics are real numbers: the model keeps
\* each as the fraction the code computes it from, n / d.
Frac(n, d) == [n |-> n, d |-> d]

Abs(x) == IF x < 0 THEN -x ELSE x

\* performance_metrics as __init__ leaves it
NoMetrics ==
    [total_trades |-> 0, winning_trades |-> 0, losing_trades |-> 0,
     total_pnl |-> 0, largest_win |-> 0, largest_loss |-> 0,
     average_win |-> Frac(0, 1), average_loss |-> Frac(0, 1),
     win_rate |-> Frac(0, 1), risk_reward_ratio |-> Frac(0, 1)]

\* CountTrade that counts a trade without gain or loss on neither side
CountTrade_skips_zero(pm, pnl, win) ==
    [pm EXCEPT
        !.total_trades = @ + 1,
        !.total_pnl = @ + pnl,
        !.winning_trades = IF win THEN @ + 1 ELSE @,
        !.largest_win = IF win /\ pnl > @ THEN pnl ELSE @,
        !.losing_trades = IF win \/ pnl = 0 THEN @ ELSE @ + 1,
        !.largest_loss = IF ~win /\ pnl < @ THEN pnl ELSE @]

\* the first half of update_performance_metrics: the trade is counted as
\* a winning trade if win, as a losing trade otherwise
CountTrade(pm, pnl, win) ==
    [pm EXCEPT
        !.total_trades = @ + 1,
        !.total_pnl = @ + pnl,
        !.winning_trades = IF win THEN @ + 1 ELSE @,
        !.largest_win = IF win /\ pnl > @ THEN pnl ELSE @,
        !.losing_trades = IF win THEN @ ELSE @ + 1,
        !.largest_loss = IF ~win /\ pnl < @ THEN pnl ELSE @]

\* UpdateAverages that computes the ratio whatever average_loss is
UpdateAverages_unguarded(pm) ==
    LET pm1 == [pm EXCEPT
                   !.average_win = IF pm.winning_trades > 0
                                   THEN Frac(pm.total_pnl, pm.winning_trades)
                                   ELSE @,
                   !.average_loss = IF pm.losing_trades > 0
                                    THEN Frac(Abs(pm.total_pnl),
                                              pm.losing_trades)
                                    ELSE @,
                   !.win_rate = IF pm.total_trades > 0
                                THEN Frac(pm.winning_trades * 100,
                                          pm.total_trades)
                                ELSE @]
    IN  [pm1 EXCEPT
            !.risk_reward_ratio =
                Frac(Abs(pm1.average_win.n * pm1.average_loss.d),
                     Abs(pm1.average_win.d * pm1.average_loss.n))]

\* the second half: "Update averages and ratios"
UpdateAverages(pm) ==
    LET pm1 == [pm EXCEPT
                   !.average_win = IF pm.winning_trades > 0
                                   THEN Frac(pm.total_pnl, pm.winning_trades)
                                   ELSE @,
                   !.average_loss = IF pm.losing_trades > 0
                                    THEN Frac(Abs(pm.total_pnl),
                                              pm.losing_trades)
                                    ELSE @,
                   !.win_rate = IF pm.total_trades > 0
                                THEN Frac(pm.winning_trades * 100,
                                          pm.total_trades)
                                ELSE @]
    IN  [pm1 EXCEPT
            !.risk_reward_ratio =
                IF pm1.average_loss.n # 0
                THEN Frac(Abs(pm1.average_win.n * pm1.average_loss.d),
                          Abs(pm1.average_win.d * pm1.average_loss.n))
                ELSE @]

\* update_performance_metrics with the test of the pnl turned around
update_performance_metrics_inverted(st, pnl) ==
    IF pnl = <<>>
    THEN st
    ELSE [st EXCEPT !.performance_metrics =
             UpdateAverages(CountTrade(@, pnl[1], pnl[1] < 0))]

\* update_performance_metrics(trade); a pnl of exactly 0 counts as a
\* losing trade
update_performance_metrics(st, pnl) ==
    IF pnl = <<>>
    THEN st
    ELSE [st EXCEPT !.performance_metrics =
             UpdateAverages(CountTrade(@, pnl[1], pnl[1] > 0))]

\* record_trade: the entry appended to trades_history (pnl is <<>> for
\* None), and for a close with a pnl the performance metrics
record_trade(st, trade_type, symbol, price, size, pnl) ==
    LET st1 == [st EXCEPT !.trades_history =
                   Append(@, [type |-> trade_type, symbol |-> symbol,
                              price |-> price, size |-> size, pnl |-> pnl])]
    IN  IF trade_type = "close" /\ pnl # <<>>
        THEN update_performance_metrics(st1, pnl)
        ELSE st1

\* self.last_trade_time[symbol] = datetime.now()
Traded(st, symbol) ==
    [st EXCEPT !.last_trade_time = Put(@, symbol, 0)]

\* dt ticks later
Elapse(st, dt) ==
    [st EXCEPT !.last_trade_time =
        [s \in DOMAIN @ |-> Min(@[s] + dt, min_trade_interval)]]

\* validate_trade_conditions that does not look at the trading interval
validate_trade_conditions_any_time(st, symbol, market_ok) == market_ok

\* validate_trade_conditions: False within min_trade_interval of the last
\* trade of the symbol; market_ok is the outcome of the volatility, volume
\* and spread checks
validate_trade_conditions(st, symbol, market_ok) ==
    IF /\ symbol \in DOMAIN st.last_trade_time
       /\ st.last_trade_time[symbol] < min_trade_interval
    THEN FALSE
    ELSE market_ok


\* process_signal that records the proceeds of the sale as the pnl
process_signal_gross(st, symbol, signal, current_price, account_balance, accepted) ==
    LET has_position == symbol \in DOMAIN st.positions
        size == calculate_position_size(account_balance, current_price)
        opened == open_position(st, symbol, size, current_price, accepted)
        closed == close_position(st, symbol, current_price, accepted)
        position == st.positions[symbol]
        pnl == current_price * position.size
    IN  IF signal = "BUY" /\ ~has_position
        THEN IF size > 0
             THEN IF opened.ret # None
                  THEN [st |-> record_trade(Traded(opened.st, symbol), "open",
                                            symbol, current_price, size, <<>>),
                        ret |-> opened.ret]
                  ELSE opened
             ELSE [st |-> st, ret |-> None]
        ELSE IF signal = "SELL" /\ has_position
        THEN IF closed.ret # None
             THEN [st |-> record_trade(Traded(closed.st, symbol), "close",
                                       symbol, current_price, position.size,
                                       <<pnl>>),
                   ret |-> closed.ret]
             ELSE closed
        ELSE [st |-> st, ret |-> None]

\* process_signal that opens on a BUY without looking at the position
process_signal_unguarded(st, symbol, signal, current_price, account_balance, accepted) ==
    LET has_position == symbol \in DOMAIN st.positions
        size == calculate_position_size(account_balance, current_price)
        opened == open_position(st, symbol, size, current_price, accepted)
        closed == close_position(st, symbol, current_price, accepted)
        position == st.positions[symbol]
        pnl == (current_price - position.entry_price) * position.size
    IN  IF signal = "BUY"
        THEN IF size > 0
             THEN IF opened.ret # None
                  THEN [st |-> record_trade(Traded(opened.st, symbol), "open",
                                            symbol, current_price, size, <<>>),
                        ret |-> opened.ret]
                  ELSE opened
             ELSE [st |-> st, ret |-> None]
        ELSE IF signal = "SELL" /\ has_position
        THEN IF closed.ret # None
             THEN [st |-> record_trade(Traded(closed.st, symbol), "close",
                                       symbol, current_price, position.size,
                                       <<pnl>>),
                   ret |-> closed.ret]
             ELSE closed
        ELSE [st |-> st, ret |-> None]

\* account_balance is what get_account_balance returns
process_signal(st, symbol, signal, current_price, account_balance, accepted) ==
    LET has_position == symbol \in DOMAIN st.positions
        size == calculate_position_size(account_balance, current_price)
        opened == open_position(st, symbol, size, current_price, accepted)
        closed == close_position(st, symbol, current_price, accepted)
        position == st.positions[symbol]
        pnl == (current_price - position.entry_price) * position.size
    IN  IF signal = "BUY" /\ ~has_position
        THEN IF size > 0
             THEN IF opened.ret # None
                  THEN [st |-> record_trade(Traded(opened.st, symbol), "open",
                                            symbol, current_price, size, <<>>),
                        ret |-> opened.ret]
                  ELSE opened
             ELSE [st |-> st, ret |-> None]
        ELSE IF signal = "SELL" /\ has_position
        THEN IF closed.ret # None
             THEN [st |-> record_trade(Traded(closed.st, symbol), "close",
                                       symbol, current_price, position.size,
                                       <<pnl>>),
                   ret |-> closed.ret]
             ELSE closed
        ELSE [st |-> st, ret |-> None]

\* TradingEngine.check_positions(symbol, current_price), which process_symbol
\* calls: the check of that symbol's position for an exit, routed through
\* PositionManager.check_positions
engine_check_positions(st, symbol, current_price, accepted) ==
    check_positions(st, [s \in {symbol} |-> current_price],
                    [s \in Symbols |-> accepted])

(***************************************************************************)
(* TradingEngine.process_symbol.  A snapshot is what the market data       *)
(* fetcher and the analyzer return for the symbol: df (historical data or  *)
(* None), current_price (0 for a price that is None or 0) and indicators,  *)
(* the indicator readings, kept as the votes BasicStrategy.analyze derives *)
(* from them (the empty dict when get_market_analysis returns None).       *)
(***************************************************************************)
\* the readings the model distinguishes: three BUY votes against one SELL,
\* four SELL votes, and two against two
IndicatorReadings ==
    {[k \in {"rsi_signal", "macd_signal", "bb_signal", "ema_signal"} |->
         IF k = "ema_signal" THEN "SELL" ELSE "BUY"],
     [k \in {"rsi_signal", "macd_signal", "bb_signal", "ema_signal"} |->
         "SELL"],
     [k \in {"rsi_signal", "macd_signal", "bb_signal", "ema_signal"} |->
         IF k \in {"rsi_signal", "macd_signal"} THEN "BUY" ELSE "SELL"]}

NoSnapshot == [df |-> FALSE, current_price |-> 0, indicators |-> EmptyDict]

Snapshots ==
    {NoSnapshot}
    \cup {[df |-> TRUE, current_price |-> 0, indicators |-> EmptyDict]}
    \cup [df : {TRUE}, current_price : Prices,
          indicators : IndicatorReadings \cup {EmptyDict}]

\* TechnicalAnalysis.get_market_analysis: a dict with the keys rsi, macd,
\* bollinger_bands, ema_20, ema_50, current_price and volume, none of them a
\* *_signal key; or None
get_market_analysis(snapshot) ==
    IF snapshot.indicators = EmptyDict
    THEN NoAnalysis
    ELSE [signals |-> EmptyDict, other |-> TRUE]

\* BasicStrategy.analyze of that dict: the four sub-signals and
\* current_price; None for None
analyze(market_data) ==
    IF market_data.indicators = EmptyDict
    THEN NoAnalysis
    ELSE [signals |-> market_data.indicators, other |-> TRUE]

\* the faults of one process_symbol: none, an exception while the data is
\* fetched or analysed, an exception in the check of the positions
Faults == {"none", "fetch", "check"}

\* process_symbol: valid is what validate_trade_conditions answers,
\* account_balance what get_account_balance returns, accepted the answer of
\* the exchange to an order.  Every exception ends in the except branch,
\* with the state as the statements before it left it.
\* process_symbol that checks the position of the symbol although the
\* analysis is missing
process_symbol_always_checks(st, symbol, snapshot, valid, account_balance, accepted, fault) ==
    IF fault = "fetch" \/ ~snapshot.df
    THEN st
    ELSE IF snapshot.current_price = 0
    THEN st
    ELSE IF fault = "check"
    THEN st
    ELSE engine_check_positions(st, symbol, snapshot.current_price, accepted)

process_symbol(st, symbol, snapshot, valid, account_balance, accepted, fault) ==
    LET analysis == get_market_analysis(snapshot)
        signal == generate_signal(analysis)
        st1 == IF valid
               THEN process_signal(st, symbol, signal, snapshot.current_price,
                                   account_balance, accepted).st
               ELSE st
    IN  IF fault = "fetch" \/ ~snapshot.df
        THEN st
        ELSE IF snapshot.current_price = 0
        THEN st
        ELSE IF analysis = NoAnalysis
        THEN st
        ELSE IF fault = "check"
        THEN st1
        ELSE engine_check_positions(st1, symbol, snapshot.current_price,
                                    accepted)

(***************************************************************************)
(* Actions: one call of an operation each.  The result of the call is     *)
(* bound once, by \E over a singleton.                                     *)
(***************************************************************************)
\* the state after a call, and the record of the call
CommitState(st, call) ==
    /\ daily_trades' = st.daily_trades
    /\ daily_loss' = st.daily_loss
    /\ open_positions' = st.open_positions
    /\ positions' = st.positions
    /\ open_orders' = st.open_orders
    /\ next_order_id' = st.next_order_id
    /\ trades_history' = st.trades_history
    /\ performance_metrics' = st.performance_metrics
    /\ last_trade_time' = st.last_trade_time
    /\ last' = call

\* ... of a call made outside the run loop
Commit(st, call) ==
    /\ CommitState(st, call)
    /\ UNCHANGED loopVars

\* the exchange accepts no more than MaxOrders orders in a run of the model
Within(st) == st.next_order_id <= MaxOrders + 1

\* ... and no more than MaxEngineOrders in a run of the engine
EngineWithin(st) == st.next_order_id <= MaxEngineOrders + 1

\* what get_account_balance may return
Balances == 0..MaxBalance

NoCall ==
    [op |-> "init", symbol |-> "", size |-> 0, price |-> 0, balance |-> 0,
     signal |-> "", valid |-> FALSE, fault |-> "none",
     prices |-> EmptyDict, analysis |-> NoAnalysis, readings |-> EmptyDict,
     trade_type |-> "", pnl |-> <<>>,
     ret |-> None, allowed |-> FALSE, reason |-> "", sent |-> <<>>,
     limit |-> 0]

\* the engine as __init__ leaves it: run() not called yet
NotStarted ==
    /\ is_running = FALSE
    /\ pc = "init"
    /\ symbol_index = 1
    /\ now = 0
    /\ web_thread = "none"
    /\ stop_call = [pc |-> "idle", thread |-> ""]
    /\ cycle = [processed |-> {}, faulted |-> {}]
    /\ midnight = [seen |-> FALSE, resets |-> 0]
    /\ in_flight = {}

Init ==
    /\ daily_trades = 0
    /\ daily_loss = 0
    /\ open_positions = EmptyDict
    /\ positions = EmptyDict
    /\ open_orders = {}
    /\ next_order_id = 1
    /\ trades_history = <<>>
    /\ performance_metrics = NoMetrics
    /\ last_trade_time = EmptyDict
    /\ NotStarted
    /\ last = NoCall

CheckTradeAllowed ==
    \E symbol \in Symbols, size \in Sizes, price \in Prices :
        \E r \in {check_trade_allowed(Cur, symbol, "buy", size, price)} :
            /\ Within(Cur)
            /\ Commit(Cur, [NoCall EXCEPT !.op = "check_trade_allowed",
                                !.symbol = symbol, !.size = size,
                                !.price = price, !.allowed = r.allowed,
                                !.reason = r.reason])

OpenPosition ==
    \E symbol \in Symbols, size \in Sizes, price \in Prices,
       accepted \in BOOLEAN :
        \E r \in {open_position(Cur, symbol, size, price, accepted)} :
            /\ Within(r.st)
            /\ Commit(r.st, [NoCall EXCEPT !.op = "open_position",
                                !.symbol = symbol, !.size = size,
                                !.price = price, !.ret = r.ret,
                                !.sent = r.st.sent])

ClosePosition ==
    \E symbol \in Symbols, price \in Prices, accepted \in BOOLEAN :
        \E r \in {close_position(Cur, symbol, price, accepted)} :
            /\ Within(r.st)
            /\ Commit(r.st, [NoCall EXCEPT !.op = "close_position",
                                !.symbol = symbol, !.price = price,
                                !.ret = r.ret, !.sent = r.st.sent])

ResetDailyMetrics ==
    /\ Within(Cur)
    /\ Commit(reset_daily_metrics(Cur),
              [NoCall EXCEPT !.op = "reset_daily_metrics"])

\* get_account_balance is called for a BUY only
ProcessSignal ==
    \E symbol \in Symbols, signal \in Votes, price \in Prices,
       accepted \in BOOLEAN :
        \E account_balance \in IF signal = "BUY" THEN Balances ELSE {0} :
            \E r \in {process_signal(Cur, symbol, signal, price,
                                     account_balance, accepted)} :
                /\ EngineWithin(r.st)
                /\ Commit(r.st, [NoCall EXCEPT !.op = "process_signal",
                                    !.symbol = symbol, !.signal = signal,
                                    !.price = price, !.ret = r.ret,
                                    !.sent = r.st.sent])

EngineCheckPositions ==
    \E symbol \in Symbols, price \in Prices, accepted \in BOOLEAN :
        \E st \in {engine_check_positions(Cur, symbol, price, accepted)} :
            /\ EngineWithin(st)
            /\ Commit(st, [NoCall EXCEPT !.op = "engine_check_positions",
                              !.symbol = symbol, !.price = price,
                              !.sent = st.sent])

GenerateSignal ==
    /\ last.op = "analysis"
    /\ Commit(Cur, [last EXCEPT !.op = "generate_signal",
                       !.signal = generate_signal(last.analysis)])

\* The operations of the risk, order and position managers, called in any
\* order, as their callers and the tests call them.
Next ==
    \/ CheckTradeAllowed
    \/ OpenPosition
    \/ ClosePosition
    \/ ResetDailyMetrics

Spec == Init /\ [][Next]_vars

\* The engine alone: every trade goes through process_signal or the
\* engine's position check.
EngineNext ==
    \/ ProcessSignal
    \/ EngineCheckPositions
    \/ ResetDailyMetrics

EngineSpec == Init /\ [][EngineNext]_vars

\* generate_signal applied to every analysis it can be given.
SignalInit ==
    /\ daily_trades = 0
    /\ daily_loss = 0
    /\ open_positions = EmptyDict
    /\ positions = EmptyDict
    /\ open_orders = {}
    /\ next_order_id = 1
    /\ trades_history = <<>>
    /\ performance_metrics = NoMetrics
    /\ last_trade_time = EmptyDict
    /\ NotStarted
    /\ \E a \in Analyses : last = [NoCall EXCEPT !.op = "analysis",
                                                  !.analysis = a]

SignalNext == GenerateSignal

SignalSpec == SignalInit /\ [][SignalNext]_vars

(***************************************************************************)
(* The strategy on its own, as test_strategy calls it: analyze, then       *)
(* generate_signal.  What an indicator says is BUY, SELL or HOLD, or       *)
(* nothing when its value is not a number: UNKNOWN.                        *)
(***************************************************************************)
Readings == Votes \cup {"UNKNOWN"}

\* _analyze_rsi, _analyze_macd, _analyze_bollinger_bands and
\* _analyze_ema_cross: "HOLD" when pd.isna finds no number, or on an
\* exception
analyze_indicator(reading) ==
    IF reading = "UNKNOWN" THEN "HOLD" ELSE reading

\* BasicStrategy.analyze of market data with these readings: a *_signal
\* entry for every indicator in the data, and current_price
analyze_readings(readings) ==
    [signals |-> [k \in DOMAIN readings |-> analyze_indicator(readings[k])],
     other |-> TRUE]

StrategyInit ==
    /\ daily_trades = 0
    /\ daily_loss = 0
    /\ open_positions = EmptyDict
    /\ positions = EmptyDict
    /\ open_orders = {}
    /\ next_order_id = 1
    /\ trades_history = <<>>
    /\ performance_metrics = NoMetrics
    /\ last_trade_time = EmptyDict
    /\ NotStarted
    /\ \E keys \in SUBSET {SignalKeys[i] : i \in 1..Len(SignalKeys)} :
           \E readings \in [keys -> Readings] :
               last = [NoCall EXCEPT !.op = "market_data",
                                     !.readings = readings]

Analyze ==
    /\ last.op = "market_data"
    /\ Commit(Cur, [last EXCEPT !.op = "analysis",
                       !.analysis = analyze_readings(last.readings)])

StrategyNext ==
    \/ Analyze
    \/ GenerateSignal

StrategySpec == StrategyInit /\ [][StrategyNext]_vars

\* record_trade called with trades of every kind: opens, and closes with
\* a pnl within the bound, no more than MaxRecords of them.
RecordTrade ==
    \E trade_type \in {"open", "close"}, symbol \in Symbols :
    \E pnl \in IF trade_type = "open"
                THEN {<<>>}
                ELSE {<<x>> : x \in (-MaxPnl)..MaxPnl} :
        /\ Len(trades_history) < MaxRecords
        /\ Commit(record_trade(Cur, trade_type, symbol, 1, Increment, pnl),
                  [NoCall EXCEPT !.op = "record_trade",
                                 !.trade_type = trade_type,
                                 !.symbol = symbol, !.price = 1,
                                 !.size = Increment, !.pnl = pnl])

MetricsNext == RecordTrade

MetricsSpec == Init /\ [][MetricsNext]_vars

\* format_size applied to every positive size within the bound.
FormatInit ==
    /\ daily_trades = 0
    /\ daily_loss = 0
    /\ open_positions = EmptyDict
    /\ positions = EmptyDict
    /\ open_orders = {}
    /\ next_order_id = 1
    /\ trades_history = <<>>
    /\ performance_metrics = NoMetrics
    /\ last_trade_time = EmptyDict
    /\ NotStarted
    /\ \E size \in 1..MaxFormatSize :
           last = [NoCall EXCEPT !.op = "size", !.size = size]

FormatSize ==
    /\ last.op = "size"
    /\ Commit(Cur, [last EXCEPT !.op = "format_size",
                       !.ret = format_size(last.size)])

FormatNext == FormatSize

FormatSpec == FormatInit /\ [][FormatNext]_vars

\* calculate_position_size applied to every balance and every price, valid
\* or not, within the bounds.
SizingPrices == -MaxSizingPrice..MaxSizingPrice

SizingBalances == 0..MaxSizingBalance

SizingInit ==
    /\ daily_trades = 0
    /\ daily_loss = 0
    /\ open_positions = EmptyDict
    /\ positions = EmptyDict
    /\ open_orders = {}
    /\ next_order_id = 1
    /\ trades_history = <<>>
    /\ performance_metrics = NoMetrics
    /\ last_trade_time = EmptyDict
    /\ NotStarted
    /\ \E account_balance \in SizingBalances, current_price \in SizingPrices :
           last = [NoCall EXCEPT !.op = "sizing", !.balance = account_balance,
                                 !.price = current_price]

\* the result of the call is kept in last.size
CalculatePositionSize ==
    /\ last.op = "sizing"
    /\ Commit(Cur, [last EXCEPT !.op = "calculate_position_size",
                       !.size = calculate_position_size(last.balance,
                                                        last.price)])

SizingNext == CalculatePositionSize

SizingSpec == SizingInit /\ [][SizingNext]_vars

(***************************************************************************)
(* TradingEngine.run and TradingEngine.stop.  run() is a coroutine: it     *)
(* gives up the event loop only in asyncio.sleep(60).  The clock is the    *)
(* time of day, in ticks; it advances while a symbol is processed and      *)
(* while run() sleeps.                                                     *)
(***************************************************************************)
DayTicks == MinutesPerDay * TicksPerMinute

\* now.hour == 0 and now.minute == 0
MidnightMinute(t) == t < TicksPerMinute

\* the clock after dt ticks
Later(t, dt) == (t + dt) % DayTicks

\* history: a midnight passed in these dt ticks with the loop running
Rollover(t, dt) ==
    IF t + dt >= DayTicks /\ is_running
    THEN [seen |-> TRUE, resets |-> 0]
    ELSE midnight

\* the engine is handed a risk manager and a position manager, which may
\* hold positions already: those that open_position left there
RECURSIVE Holding(_, _, _)
Holding(st, held, entry_price) ==
    IF held = {}
    THEN st
    ELSE LET symbol == CHOOSE s \in held : TRUE
         IN  Holding(open_position(st, symbol, Increment, entry_price[symbol],
                                   TRUE).st,
                     held \ {symbol}, entry_price)

Fresh ==
    [daily_trades |-> 0, daily_loss |-> 0, open_positions |-> EmptyDict,
     positions |-> EmptyDict, open_orders |-> {}, next_order_id |-> 1,
     trades_history |-> <<>>, performance_metrics |-> NoMetrics,
     last_trade_time |-> EmptyDict, sent |-> <<>>]

RunInit ==
    /\ \E held \in SUBSET Symbols :
           \E entry_price \in [held -> Prices] :
               \E st \in {Holding(Fresh, held, entry_price)} :
                   /\ daily_trades = st.daily_trades
                   /\ daily_loss = st.daily_loss
                   /\ open_positions = st.open_positions
                   /\ positions = st.positions
                   /\ open_orders = st.open_orders
                   /\ next_order_id = st.next_order_id
                   /\ trades_history = st.trades_history
                   /\ performance_metrics = st.performance_metrics
                   /\ last_trade_time = st.last_trade_time
    /\ last = NoCall
    /\ is_running = FALSE
    /\ pc = "init"
    /\ symbol_index = 1
    /\ now \in 0..(DayTicks - 1)
    /\ web_thread = "none"
    /\ stop_call = [pc |-> "idle", thread |-> ""]
    /\ cycle = [processed |-> {}, faulted |-> {}]
    /\ midnight = [seen |-> FALSE, resets |-> 0]
    /\ in_flight = {}

\* stop() called from a coroutine of the event loop holds the loop's thread
\* for as long as it waits in web_thread.join()
LoopThreadFree ==
    ~(stop_call.pc = "join" /\ stop_call.thread = "event_loop")

\* run(), up to the while loop
RunStart ==
    /\ pc = "init"
    /\ is_running' = TRUE
    /\ web_thread' = "alive"
    /\ pc' = "for"
    /\ symbol_index' = 1
    /\ last' = [NoCall EXCEPT !.op = "run"]
    /\ UNCHANGED <<in_flight, progVars, next_order_id, now, stop_call, cycle,
                   midnight>>

\* where the for loop of run() goes after process_symbol, when the fault
\* of a symbol is not caught in process_symbol but in the loop's handler
AfterSymbol_uncaught(i, fault) ==
    IF fault # "none"
    THEN [pc |-> "sleep", symbol_index |-> i]
    ELSE IF i < Len(trading_pairs)
    THEN [pc |-> "for", symbol_index |-> i + 1]
    ELSE [pc |-> "update", symbol_index |-> i + 1]

\* where the for loop of run() goes after process_symbol: process_symbol
\* returns None on every fault, so to the next symbol, or past the loop
AfterSymbol(i, fault) ==
    IF i < Len(trading_pairs)
    THEN [pc |-> "for", symbol_index |-> i + 1]
    ELSE [pc |-> "update", symbol_index |-> i + 1]

\* The balance of the account is of interest where the snapshot speaks for
\* a buy of a symbol without a position, and the validation passes.
BalancesAsked(st, symbol, snapshot, valid) ==
    IF /\ valid
       /\ generate_signal(analyze(snapshot)) = "BUY"
       /\ symbol \notin DOMAIN st.positions
    THEN Balances
    ELSE {0}

\* one pass of the for loop: process_symbol(trading_pairs[symbol_index]).
\* The validation is reached with an analysis only; the answer of the
\* exchange is drawn where an order is sent.
ProcessSymbol ==
    /\ pc = "for"
    /\ LoopThreadFree
    /\ \E fault \in Faults, dt \in 0..MaxSymbolTicks :
       \E snapshot \in IF fault = "fetch" THEN {NoSnapshot} ELSE Snapshots :
       \E valid \in IF snapshot.indicators = EmptyDict
                     THEN {FALSE}
                     ELSE BOOLEAN :
       \E account_balance \in BalancesAsked(Cur, trading_pairs[symbol_index],
                                             snapshot, valid) :
       \E accepted \in BOOLEAN :
       \E st \in {process_symbol(Cur, trading_pairs[symbol_index], snapshot,
                                  valid, account_balance, accepted, fault)} :
           /\ accepted \/ st.sent # <<>>
           /\ CommitState(Elapse(st, dt),
                  [NoCall EXCEPT
                      !.op = "process_symbol",
                      !.symbol = trading_pairs[symbol_index],
                      !.price = snapshot.current_price,
                      !.balance = account_balance,
                      !.analysis = analyze(snapshot),
                      !.signal = generate_signal(get_market_analysis(snapshot)),
                      !.valid = valid, !.fault = fault,
                      !.sent = st.sent])
           /\ pc' = AfterSymbol(symbol_index, fault).pc
           /\ symbol_index' = AfterSymbol(symbol_index, fault).symbol_index
           /\ now' = Later(now, dt)
           /\ midnight' = Rollover(now, dt)
           /\ cycle' =
                  [processed |-> cycle.processed
                                  \cup {trading_pairs[symbol_index]},
                   faulted |-> IF fault = "none"
                               THEN cycle.faulted
                               ELSE cycle.faulted
                                    \cup {trading_pairs[symbol_index]}]
    /\ UNCHANGED <<in_flight, is_running, web_thread, stop_call>>

\* the rest of the try block: the positions go to the web interface, the
\* performance notification is sent, and at midnight the daily metrics are
\* reset
EndOfCycle ==
    /\ pc = "update"
    /\ LoopThreadFree
    /\ CommitState(IF MidnightMinute(now)
                   THEN reset_daily_metrics(Cur)
                   ELSE Cur,
                   [NoCall EXCEPT !.op = IF MidnightMinute(now)
                                         THEN "reset_daily_metrics"
                                         ELSE "end_of_cycle"])
    /\ midnight' = IF MidnightMinute(now)
                   THEN [midnight EXCEPT !.resets = @ + 1]
                   ELSE midnight
    /\ pc' = "sleep"
    /\ UNCHANGED <<in_flight, is_running, symbol_index, now, web_thread,
                   stop_call, cycle>>

\* the except branch of the loop taken out of the loop, with the exception
LoopFault_escapes ==
    /\ pc = "update"
    /\ LoopThreadFree
    /\ CommitState(Cur, [NoCall EXCEPT !.op = "loop_fault"])
    /\ pc' = "done"
    /\ UNCHANGED <<in_flight, is_running, symbol_index, now, web_thread,
                   stop_call, cycle,
                   midnight>>

\* an exception in the rest of the try block, before the test for
\* midnight: the except branch logs it and goes to sleep
LoopFault ==
    /\ pc = "update"
    /\ LoopThreadFree
    /\ CommitState(Cur, [NoCall EXCEPT !.op = "loop_fault"])
    /\ pc' = "sleep"
    /\ UNCHANGED <<in_flight, is_running, symbol_index, now, web_thread,
                   stop_call, cycle,
                   midnight>>

\* await asyncio.sleep(60), and the test of the while loop after it
Sleep ==
    /\ pc = "sleep"
    /\ LoopThreadFree
    /\ CommitState(Elapse(Cur, TicksPerMinute), [NoCall EXCEPT !.op = "sleep"])
    /\ now' = Later(now, TicksPerMinute)
    /\ midnight' = Rollover(now, TicksPerMinute)
    /\ pc' = IF is_running THEN "for" ELSE "done"
    /\ symbol_index' = IF is_running THEN 1 ELSE symbol_index
    /\ cycle' = IF is_running
                THEN [processed |-> {}, faulted |-> {}]
                ELSE cycle
    /\ UNCHANGED <<in_flight, is_running, web_thread, stop_call>>

\* stop(), up to web_thread.join(): from a coroutine of the event loop,
\* which runs only while run() sleeps, or from a request to the web
\* interface, at any time
Stop ==
    \E thread \in {"event_loop", "web_request"} :
        /\ pc \in {"for", "update", "sleep"}
        /\ thread = "event_loop" => pc = "sleep"
        /\ is_running
        /\ stop_call.pc = "idle"
        /\ CommitState(Cur, [NoCall EXCEPT !.op = "stop"])
        /\ is_running' = FALSE
        /\ stop_call' = [pc |-> "join", thread |-> thread]
        /\ UNCHANGED <<in_flight, pc, symbol_index, now, web_thread, cycle,
                       midnight>>

\* web_thread.join() returns, and stop() with it, once the thread has ended
StopReturn ==
    /\ stop_call.pc = "join"
    /\ web_thread = "ended"
    /\ CommitState(Cur, [NoCall EXCEPT !.op = "stop_return"])
    /\ stop_call' = [stop_call EXCEPT !.pc = "returned"]
    /\ UNCHANGED <<in_flight, is_running, pc, symbol_index, now, web_thread,
                   cycle,
                   midnight>>

\* WebInterface.run returns: socketio.run raised (the port is taken, ...).
\* Nothing in the engine makes the server stop.
WebServerExit ==
    /\ web_thread = "alive"
    /\ CommitState(Cur, [NoCall EXCEPT !.op = "web_server_exit"])
    /\ web_thread' = "ended"
    /\ UNCHANGED <<in_flight, is_running, pc, symbol_index, now, stop_call,
                   cycle,
                   midnight>>

\* The run loop of an engine nobody stops.
RunNext ==
    \/ RunStart
    \/ ProcessSymbol
    \/ EndOfCycle
    \/ LoopFault
    \/ Sleep

RunSpec == RunInit /\ [][RunNext]_vars

\* The engine of test_trading_engine: made of new managers, run, and
\* stopped at some time.
StopInit ==
    /\ daily_trades = 0
    /\ daily_loss = 0
    /\ open_positions = EmptyDict
    /\ positions = EmptyDict
    /\ open_orders = {}
    /\ next_order_id = 1
    /\ trades_history = <<>>
    /\ performance_metrics = NoMetrics
    /\ last_trade_time = EmptyDict
    /\ last = NoCall
    /\ is_running = FALSE
    /\ pc = "init"
    /\ symbol_index = 1
    /\ now \in 0..(DayTicks - 1)
    /\ web_thread = "none"
    /\ stop_call = [pc |-> "idle", thread |-> ""]
    /\ cycle = [processed |-> {}, faulted |-> {}]
    /\ midnight = [seen |-> FALSE, resets |-> 0]
    /\ in_flight = {}

StopNext ==
    \/ RunStart
    \/ ProcessSymbol
    \/ EndOfCycle
    \/ LoopFault
    \/ Sleep
    \/ Stop
    \/ StopReturn
    \/ WebServerExit

\* The event loop runs the coroutine that is ready, and a join returns
\* when its thread has ended; the web server need never exit.
StopSpec ==
    /\ StopInit
    /\ [][StopNext]_vars
    /\ WF_vars(RunStart)
    /\ WF_vars(ProcessSymbol)
    /\ WF_vars(EndOfCycle \/ LoopFault)
    /\ WF_vars(Sleep)
    /\ WF_vars(StopReturn)

\* The statement of process_symbol that acts on a signal: process_signal
\* if validate_trade_conditions answers True.
SignalTrade ==
    \E symbol \in Symbols, signal \in Votes, price \in Prices,
       market_ok \in BOOLEAN, accepted \in BOOLEAN :
        \E valid \in {validate_trade_conditions(Cur, symbol, market_ok)} :
        \E account_balance \in IF valid /\ signal = "BUY"
                                THEN Balances ELSE {0} :
            \E st \in {IF valid
                        THEN process_signal(Cur, symbol, signal, price,
                                            account_balance, accepted).st
                        ELSE Cur} :
                /\ EngineWithin(st)
                /\ Commit(st, [NoCall EXCEPT !.op = "signal",
                                  !.symbol = symbol, !.signal = signal,
                                  !.price = price, !.valid = valid,
                                  !.balance = account_balance,
                                  !.sent = st.sent])

\* a tick of the clock between two calls, counted in the time since the
\* last trades
TimePasses ==
    /\ \E s \in DOMAIN last_trade_time :
           last_trade_time[s] < min_trade_interval
    /\ Commit(Elapse(Cur, 1), [NoCall EXCEPT !.op = "time"])

\* The engine acting on the signals of a strategy, validated, as time
\* passes.
TradeNext ==
    \/ SignalTrade
    \/ TimePasses
    \/ EngineCheckPositions

TradeSpec == Init /\ [][TradeNext]_vars

(***************************************************************************)
(* RiskManager.update_position and RiskManager.check_exit_signals called   *)
(* directly, as tests/test_risk_manager.py calls them.  The prices are     *)
(* fine enough to fall on the stop-loss and take-profit levels exactly.    *)
(***************************************************************************)
\* the least entry price, in ticks, whose stop-loss and take-profit levels
\* are whole ticks
ExitEntryStep == 50

ExitEntries == {ExitEntryStep * k : k \in 1..MaxExitEntries}

\* from below the lowest stop-loss level to above the highest take-profit
\* level
ExitPrices == (ExitEntryStep - 3)..(ExitEntryStep * MaxExitEntries + 5)

UpdatePosition ==
    \E symbol \in Symbols, side \in Sides, size \in Sizes,
       entry_price \in ExitEntries :
        /\ daily_trades < MaxExitUpdates
        /\ Commit(update_position(Cur, symbol, side, size, entry_price),
                  [NoCall EXCEPT !.op = "update_position",
                      !.symbol = symbol, !.size = size,
                      !.price = entry_price])

\* the exit signal returned is kept in last.signal
CheckExitSignals ==
    \E symbol \in Symbols, current_price \in ExitPrices :
        Commit(Cur, [NoCall EXCEPT !.op = "check_exit_signals",
                        !.symbol = symbol, !.price = current_price,
                        !.signal = check_exit_signals(Cur, symbol,
                                                      current_price)])

ExitNext ==
    \/ UpdatePosition
    \/ CheckExitSignals

ExitSpec == Init /\ [][ExitNext]_vars

(***************************************************************************)
(* The open_position and close_position calls of the engine loop, each in  *)
(* two steps: up to the order handed to the exchange client (the risk      *)
(* check and the formatting of the size), and from the client's answer on  *)
(* (update_position, open_orders, positions).  in_flight holds the calls   *)
(* that are between the two.                                               *)
(***************************************************************************)
\* a run() that starts the calls of a cycle as tasks of their own
MayBegin_gathered(flying) == TRUE

\* run(): `await self.process_symbol(symbol)` in a for loop of the one
\* coroutine that trades; a call begins when the call before has returned
MayBegin(flying) == flying = {}

\* place_market_buy, up to the client call
place_market_buy_checked(st, symbol, size, current_price) ==
    /\ check_trade_allowed(st, symbol, "buy", size, current_price).allowed
    /\ Truthy(format_size(size))

\* open_position and place_market_buy, from the client call on
open_position_ordered(st, call, accepted) ==
    LET formatted_size == format_size(call.size)
        order == AdapterOrder(st, "buy", accepted)
        st1 == Send(st, "buy", call.symbol, formatted_size, accepted)
        st2 == update_position(st1, call.symbol, "buy", formatted_size,
                               call.price)
    IN  IF order # None
        THEN [st |-> [st2 EXCEPT
                         !.open_orders = @ \cup {order},
                         !.positions =
                             Put(@, call.symbol,
                                 [size |-> call.size,
                                  entry_price |-> call.price,
                                  order_id |-> order])],
              ret |-> order]
        ELSE [st |-> st1, ret |-> None]

\* close_position and place_market_sell, from the client call on
close_position_ordered(st, call, accepted) ==
    LET formatted_size == format_size(call.size)
        order == AdapterOrder(st, "sell", accepted)
        st1 == Send(st, "sell", call.symbol, formatted_size, accepted)
        pnl == (call.price - st1.open_positions[call.symbol].entry_price)
                  * formatted_size
        st2 == IF call.symbol \in DOMAIN st1.open_positions /\ pnl < 0
               THEN update_daily_loss(st1, -pnl)
               ELSE st1
        st3 == update_position(st2, call.symbol, "sell", formatted_size,
                               call.price)
    IN  IF order # None
        THEN [st |-> [st3 EXCEPT !.positions = Del(@, call.symbol)],
              ret |-> order]
        ELSE [st |-> st1, ret |-> None]

\* ... of a step of a call, with the calls in flight after it
CommitCall(st, call, flying) ==
    /\ CommitState(st, call)
    /\ in_flight' = flying
    /\ UNCHANGED <<is_running, pc, symbol_index, now, web_thread, stop_call,
                   cycle, midnight>>

\* process_signal opens a position for a symbol that has none
BeginOpen ==
    \E symbol \in Symbols \ DOMAIN positions, size \in Sizes,
       price \in Prices :
        /\ MayBegin(in_flight)
        /\ next_order_id <= MaxOrders
        /\ CommitCall(Cur,
                      [NoCall EXCEPT !.op = "place_market_buy",
                          !.symbol = symbol, !.size = size, !.price = price],
                      IF place_market_buy_checked(Cur, symbol, size, price)
                      THEN in_flight
                             \cup {[op |-> "open_position", symbol |-> symbol,
                                    size |-> size, price |-> price]}
                      ELSE in_flight)

CompleteOpen ==
    \E call \in in_flight, accepted \in BOOLEAN :
        /\ call.op = "open_position"
        /\ \E r \in {open_position_ordered(Cur, call, accepted)} :
               CommitCall(r.st,
                          [NoCall EXCEPT !.op = "open_position",
                              !.symbol = call.symbol, !.size = call.size,
                              !.price = call.price, !.ret = r.ret,
                              !.sent = r.st.sent],
                          in_flight \ {call})

\* process_signal and check_positions close the position of a symbol that
\* has one
BeginClose ==
    \E symbol \in DOMAIN positions, price \in Prices :
        /\ MayBegin(in_flight)
        /\ next_order_id <= MaxOrders
        /\ CommitCall(Cur,
                      [NoCall EXCEPT !.op = "place_market_sell",
                          !.symbol = symbol, !.price = price],
                      IF Truthy(format_size(positions[symbol].size))
                      THEN in_flight
                             \cup {[op |-> "close_position", symbol |-> symbol,
                                    size |-> positions[symbol].size,
                                    price |-> price]}
                      ELSE in_flight)

CompleteClose ==
    \E call \in in_flight, accepted \in BOOLEAN :
        /\ call.op = "close_position"
        /\ \E r \in {close_position_ordered(Cur, call, accepted)} :
               CommitCall(r.st,
                          [NoCall EXCEPT !.op = "close_position",
                              !.symbol = call.symbol, !.size = call.size,
                              !.price = call.price, !.ret = r.ret,
                              !.sent = r.st.sent],
                          in_flight \ {call})

OrderingNext ==
    \/ BeginOpen
    \/ CompleteOpen
    \/ BeginClose
    \/ CompleteClose

OrderingSpec == Init /\ [][OrderingNext]_vars

(***************************************************************************)
(* The arithmetic of calculate_position_size and of the position-size      *)
(* check of check_trade_allowed as the code does it, in binary floating    *)
(* point: every division and multiplication is rounded to the nearest      *)
(* number of FloatBits significant bits, ties to even.  Numbers are kept   *)
(* as fractions; all of them are positive here.                            *)
(***************************************************************************)
\* the significant bits of a float (53 in Python), scaled down
FloatBits == 5

\* the exponents the numbers of the model stay within
FloatExpRange == 14

\* n / d rounded to the nearest integer, ties to even
RoundHalfEven(n, d) ==
    LET q == n \div d
        r == n % d
    IN  IF 2 * r > d \/ (2 * r = d /\ q % 2 = 1) THEN q + 1 ELSE q

\* the exponent e with 2^(FloatBits-1) <= x / 2^e < 2^FloatBits
FloatExp(x) ==
    CHOOSE e \in -FloatExpRange..FloatExpRange :
        IF e >= 0
        THEN /\ 2^(FloatBits - 1) * x.d * 2^e <= x.n
             /\ x.n < 2^FloatBits * x.d * 2^e
        ELSE /\ 2^(FloatBits - 1) * x.d <= x.n * 2^(-e)
             /\ x.n * 2^(-e) < 2^FloatBits * x.d

\* the float nearest to the fraction x
Float(x) ==
    IF x.n = 0
    THEN Frac(0, 1)
    ELSE LET e == FloatExp(x)
         IN  IF e >= 0
             THEN Frac(RoundHalfEven(x.n, x.d * 2^e) * 2^e, 1)
             ELSE Frac(RoundHalfEven(x.n * 2^(-e), x.d), 2^(-e))

FloatDiv(a, b) == Float(Frac(a.n * b.d, a.d * b.n))

FloatMul(a, b) == Float(Frac(a.n * b.n, a.d * b.d))

FloatLess(a, b) == a.n * b.d < b.n * a.d

FloatMin(a, b) == IF FloatLess(b, a) THEN b ELSE a

\* calculate_position_size of a RiskManager constructed with this
\* max_position_size (named limit here), for a positive price
calculate_position_size_float(limit, account_balance, current_price) ==
    LET risk_amount == FloatMul(Frac(account_balance, 1),
                                Float(Frac(risk_per_trade_pct, 100)))
    IN  FloatMin(FloatDiv(risk_amount,
                          FloatMul(Frac(current_price, 1),
                                   FloatDiv(Frac(stop_loss_pct, 1),
                                            Frac(100, 1)))),
                 FloatDiv(Frac(limit, 1), Frac(current_price, 1)))

\* check_trade_allowed: position_value = size * current_price;
\* position_value > self.max_position_size
position_size_exceeds(limit, size, current_price) ==
    FloatLess(Frac(limit, 1), FloatMul(size, Frac(current_price, 1)))

RoundingLimits == 1..MaxRoundingLimit

RoundingPrices == 1..MaxRoundingPrice

RoundingBalances == {2^k : k \in 0..MaxRoundingBalanceExp}

\* a RiskManager with its max_position_size, and the balance and the price
\* of a call
RoundingInit ==
    /\ daily_trades = 0
    /\ daily_loss = 0
    /\ open_positions = EmptyDict
    /\ positions = EmptyDict
    /\ open_orders = {}
    /\ next_order_id = 1
    /\ trades_history = <<>>
    /\ performance_metrics = NoMetrics
    /\ last_trade_time = EmptyDict
    /\ NotStarted
    /\ \E limit \in RoundingLimits, account_balance \in RoundingBalances,
          current_price \in RoundingPrices :
           last = [NoCall EXCEPT !.op = "rounding", !.limit = limit,
                                 !.balance = account_balance,
                                 !.price = current_price]

\* the size returned is kept in last.size
CalculatePositionSizeFloat ==
    /\ last.op = "rounding"
    /\ Commit(Cur, [last EXCEPT !.op = "calculate_position_size",
                       !.size = calculate_position_size_float(
                                    last.limit, last.balance, last.price)])

\* the position-size check of check_trade_allowed on that size, at the
\* same price
CheckPositionSize ==
    /\ last.op = "calculate_position_size"
    /\ Commit(Cur, [last EXCEPT !.op = "check_trade_allowed",
                       !.allowed = ~position_size_exceeds(last.limit,
                                                          last.size,
                                                          last.price),
                       !.reason = IF position_size_exceeds(last.limit,
                                                           last.size,
                                                           last.price)
                                  THEN "Position size exceeds maximum"
                                  ELSE ""])

RoundingNext ==
    \/ CalculatePositionSizeFloat
    \/ CheckPositionSize

RoundingSpec == RoundingInit /\ [][RoundingNext]_vars

(***************************************************************************)
(* Properties.                                                             *)
(***************************************************************************)
\* the exchange refused an order of this side that the call sent
Refused(sent, side) ==
    \E i \in DOMAIN sent : sent[i].side = side /\ ~sent[i].accepted

\* C1: check_trade_allowed never answers allowed=True when daily_trades >=
\* max_trades_per_day, or daily_loss >= max_daily_loss, or size * price >
\* max_position_size.  (The call changes no state, so the state it ran in
\* is the state it leaves.)
C1_NoTradeAllowedBeyondLimits ==
    (last.op = "check_trade_allowed" /\ last.allowed) =>
        /\ daily_trades < max_trades_per_day
        /\ daily_loss < max_daily_loss
        /\ last.size * last.price <= max_position_size

\* a request of a permitted size is refused because the daily loss has
\* reached its limit while the daily trades have not
C1_Witness ==
    /\ last.op = "check_trade_allowed"
    /\ ~last.allowed
    /\ daily_trades < max_trades_per_day
    /\ daily_loss >= max_daily_loss
    /\ last.size * last.price <= max_position_size

\* C2: when the exchange refuses the buy, open_position returns None and
\* daily_trades, daily_loss, open_positions and positions are as before.
C2_RefusedBuyChangesNothing ==
    [][(last'.op = "open_position" /\ Refused(last'.sent, "buy")) =>
          /\ last'.ret = None
          /\ UNCHANGED <<daily_trades, daily_loss, open_positions, positions>>
      ]_vars

\* a buy was refused while the other symbol holds a position
C2_Witness ==
    /\ last.op = "open_position"
    /\ Refused(last.sent, "buy")
    /\ DOMAIN positions # {}
    /\ last.symbol \notin DOMAIN positions

\* C3: when the exchange refuses the sell, close_position leaves the
\* symbol's position and its risk record, daily_trades and daily_loss as
\* they were, so a retry sees the same values.
C3_RefusedSellChangesNothing ==
    [][(last'.op = "close_position" /\ Refused(last'.sent, "sell")) =>
          /\ last'.ret = None
          /\ last'.symbol \in DOMAIN positions'
          /\ last'.symbol \in DOMAIN open_positions'
          /\ UNCHANGED <<daily_trades, daily_loss, open_positions, positions>>
      ]_vars

\* a sell below the entry price was refused: the position is still there
C3_Witness ==
    /\ last.op = "close_position"
    /\ Refused(last.sent, "sell")
    /\ last.symbol \in DOMAIN positions
    /\ last.price < positions[last.symbol].entry_price
    /\ open_positions[last.symbol].size > 0

\* C4: after any sequence of open_position and close_position calls, a
\* symbol has a risk record if and only if it has a position.
C4_StoresAgree == DOMAIN open_positions = DOMAIN positions

\* one symbol was closed while the other one stays open in both stores
C4_Witness ==
    /\ last.op = "close_position"
    /\ last.ret # None
    /\ DOMAIN positions # {}
    /\ DOMAIN open_positions # {}

\* C5: open_position for a symbol that already has a position returns
\* None, submits no buy and leaves the position unchanged.
C5_OpenWhileOpenFails ==
    [][(last'.op = "open_position" /\ last'.symbol \in DOMAIN positions) =>
          /\ last'.ret = None
          /\ last'.sent = <<>>
          /\ positions' = positions
      ]_vars

\* C6: in the engine, a buy is never submitted for a symbol that has a
\* position in the ledger.
C6_EngineNeverBuysAnOpenSymbol ==
    [][\A i \in DOMAIN last'.sent :
           last'.sent[i].side = "buy" =>
               last'.sent[i].symbol \notin DOMAIN positions
      ]_vars

\* a BUY signal came for a symbol that holds a position, and nothing was
\* sent (a call that sends nothing leaves the ledger as it found it)
C6_Witness ==
    /\ last.op = "process_signal"
    /\ last.signal = "BUY"
    /\ last.sent = <<>>
    /\ last.symbol \in DOMAIN positions

\* C7: close_position for a symbol without a position returns None,
\* submits no sell and changes neither the ledger nor the risk manager.
C7_CloseWhileFlatChangesNothing ==
    [][(last'.op = "close_position" /\ last'.symbol \notin DOMAIN positions) =>
          /\ last'.ret = None
          /\ last'.sent = <<>>
          /\ UNCHANGED <<positions, daily_trades, daily_loss, open_positions>>
      ]_vars

\* a close of a flat symbol returned None while the other symbol is open
\* (a close that returns None leaves the ledger as it found it)
C7_Witness ==
    /\ last.op = "close_position"
    /\ last.symbol \notin DOMAIN positions
    /\ last.ret = None
    /\ DOMAIN positions # {}

\* C8, as claimed: daily_trades never exceeds max_trades_per_day.
C8_DailyTradesWithinLimit == daily_trades <= max_trades_per_day

\* C8, amended: a buy the exchange accepted never leaves daily_trades above
\* max_trades_per_day; only sells, which no check precedes, take it above
\* the limit, one per position that was open, so that daily_trades plus
\* the number of open positions stays within the limit plus the number of
\* symbols.
C8_OnlySellsExceedTheLimit ==
    [][/\ (\E i \in DOMAIN last'.sent :
              last'.sent[i].side = "buy" /\ last'.sent[i].accepted)
          => daily_trades' <= max_trades_per_day
       /\ daily_trades' + Cardinality(DOMAIN positions')
              <= max_trades_per_day + Cardinality(Symbols)
      ]_vars

\* a sell took daily_trades above the limit
C8_Witness ==
    /\ last.op = "close_position"
    /\ last.ret # None
    /\ daily_trades > max_trades_per_day

\* C9: when the size of an allowed buy quantizes to zero, the trade is
\* skipped: nothing is sent to the exchange and no state changes.
C9_ZeroSizeIsSkipped ==
    [][(/\ last'.op = "open_position"
        /\ check_trade_allowed(Cur, last'.symbol, "buy", last'.size,
                               last'.price).allowed
        /\ format_size(last'.size) = 0) =>
          /\ last'.sent = <<>>
          /\ last'.ret = None
          /\ UNCHANGED progVars
      ]_vars

\* the votes of an analysis, counted over the keys it holds
VotesFor(analysis, value) ==
    Cardinality({k \in DOMAIN analysis.signals : analysis.signals[k] = value})

\* C10: generate_signal returns BUY exactly when the BUY votes are more
\* than half of the sub-signals, SELL exactly when the SELL votes are, HOLD
\* in every other case (ties, pluralities, no sub-signal), and changes no
\* state.
C10_StrictMajority ==
    [][last'.op = "generate_signal" =>
          LET n == Cardinality(DOMAIN last'.analysis.signals)
              buys == VotesFor(last'.analysis, "BUY")
              sells == VotesFor(last'.analysis, "SELL")
          IN  /\ last'.signal = "BUY" <=> 2 * buys > n
              /\ last'.signal = "SELL" <=> 2 * sells > n
              /\ last'.signal = "HOLD" <=> (2 * buys <= n /\ 2 * sells <= n)
              /\ UNCHANGED progVars
      ]_vars

\* two BUY votes of four sub-signals, no majority: HOLD
C10_Witness ==
    /\ last.op = "generate_signal"
    /\ Cardinality(DOMAIN last.analysis.signals) = 4
    /\ VotesFor(last.analysis, "BUY") = 2
    /\ last.signal = "HOLD"

\* C11: under every operation other than reset_daily_metrics, daily_trades
\* and daily_loss do not decrease from one state to the next, and neither
\* becomes zero unless it was zero.
C11_DailyCountersNeverDecrease ==
    [][last'.op # "reset_daily_metrics" =>
          /\ daily_trades' >= daily_trades
          /\ daily_loss' >= daily_loss
          /\ (daily_trades' = 0 => daily_trades = 0)
          /\ (daily_loss' = 0 => daily_loss = 0)
      ]_vars

\* a position was closed after a loss had been booked, another still open
C11_Witness ==
    /\ last.op = "close_position"
    /\ last.ret # None
    /\ \E i \in DOMAIN last.sent : last.sent[i].size > 0
    /\ daily_loss > 0
    /\ daily_trades > 0
    /\ DOMAIN positions # {}

\* C12: for every midnight that passes while the loop is running, the loop
\* calls reset_daily_metrics exactly once: never twice, and once the
\* minute after midnight is over it has called it.
C12_ResetExactlyOncePerMidnight ==
    /\ midnight.resets <= 1
    /\ (midnight.seen /\ ~MidnightMinute(now)) => midnight.resets = 1

\* C13: reset_daily_metrics sets daily_trades and daily_loss to zero from
\* any values, leaves open_positions (and everything else) as it was, and
\* a second reset changes nothing: applied twice it gives what it gives
\* applied once.
C13_ResetZeroesAndIsIdempotent ==
    [][last'.op = "reset_daily_metrics" =>
          /\ daily_trades' = 0
          /\ daily_loss' = 0
          /\ UNCHANGED <<open_positions, positions, open_orders,
                         trades_history>>
          /\ reset_daily_metrics(reset_daily_metrics(Cur))
                 = reset_daily_metrics(Cur)
          /\ last.op = "reset_daily_metrics" => UNCHANGED progVars
      ]_vars

\* a reset while a position is open, whose buy had been counted
C13_Witness ==
    /\ last.op = "reset_daily_metrics"
    /\ DOMAIN open_positions # {}
    /\ daily_trades = 0
    /\ daily_loss = 0

\* the entry of a symbol is the same in two dicts
SameEntry(d1, d2, symbol) ==
    /\ symbol \in DOMAIN d1 <=> symbol \in DOMAIN d2
    /\ symbol \in DOMAIN d1 => d1[symbol] = d2[symbol]

\* an order of this side for this symbol is among those sent
Sent(sent, side, symbol) ==
    \E i \in DOMAIN sent : sent[i].side = side /\ sent[i].symbol = symbol

\* C14: whatever fault the processing of a symbol raises, the for loop
\* goes on to the next symbol, so that every configured symbol has been
\* processed when the loop is left, and the positions and risk records
\* of the other symbols are as they were.
C14_SymbolFaultIsContained ==
    [][last'.op = "process_symbol" =>
          /\ pc' \in {"for", "update"}
          /\ pc' = "for" => symbol_index' = symbol_index + 1
          /\ pc' = "update" => cycle'.processed = Symbols
          /\ \A other \in Symbols \ {last'.symbol} :
                 /\ SameEntry(positions, positions', other)
                 /\ SameEntry(open_positions, open_positions', other)
      ]_vars

\* the first symbol faulted with its position due for an exit, and the
\* second was then processed and its position sold
C14_Witness ==
    /\ pc = "update"
    /\ trading_pairs[1] \in cycle.faulted
    /\ trading_pairs[1] \in DOMAIN positions
    /\ cycle.processed = Symbols
    /\ last.op = "process_symbol"
    /\ last.symbol = trading_pairs[2]
    /\ Sent(last.sent, "sell", trading_pairs[2])

\* C15: a fault in an iteration of the run loop does not end the loop: a
\* fault of a symbol leaves run() in its for loop, a fault of the loop
\* takes it to the sleep, after the sleep the next cycle starts while
\* is_running holds, and run() is done only when is_running is false.
C15_FaultNeverEndsTheLoop ==
    [][/\ (last'.op = "process_symbol" /\ last'.fault # "none")
              => pc' \in {"for", "update"}
       /\ last'.op = "loop_fault" => (pc' = "sleep" /\ UNCHANGED is_running)
       /\ (pc = "sleep" /\ pc' # "sleep" /\ is_running)
              => (pc' = "for" /\ symbol_index' = 1)
       /\ pc' = "done" => ~is_running'
      ]_vars

\* the loop caught a fault and waits for the next cycle, still running
C15_Witness ==
    /\ last.op = "loop_fault"
    /\ pc = "sleep"
    /\ is_running
    /\ cycle.processed = Symbols

\* C16: after stop() is called on a running engine, stop() returns and
\* run() terminates.
C16_StopReturnsAndRunEnds ==
    (stop_call.pc = "join") ~> (stop_call.pc = "returned" /\ pc = "done")

\* the price is at or below the stop-loss level of the symbol's position,
\* or at or above its take-profit level
ExitDue(symbol, price) ==
    /\ symbol \in DOMAIN open_positions
    /\ \/ price * 100 <= open_positions[symbol].stop_loss
       \/ price * 100 >= open_positions[symbol].take_profit

C18_MajoritySignalIsExecuted ==
    [][(/\ last'.op = "process_symbol"
        /\ last'.fault = "none"
        /\ last'.price > 0
        /\ last'.valid) =>
          LET intended == generate_signal(last'.analysis)
              size == calculate_position_size(last'.balance, last'.price)
          IN  /\ (/\ intended = "BUY"
                  /\ last'.symbol \notin DOMAIN positions
                  /\ size > 0
                  /\ check_trade_allowed(Cur, last'.symbol, "buy", size,
                                         last'.price).allowed)
                     => Sent(last'.sent, "buy", last'.symbol)
              /\ (intended = "SELL" /\ last'.symbol \in DOMAIN positions)
                     => Sent(last'.sent, "sell", last'.symbol)
      ]_vars

C20_ZeroForInvalidPrice ==
    (last.op = "calculate_position_size" /\ last.price <= 0) => last.size = 0

\* C21: the risk record of every open position has its stop-loss level
\* below its entry price and its take-profit level above it.
C21_LevelsBracketEntry ==
    \A symbol \in DOMAIN open_positions :
        /\ open_positions[symbol].stop_loss
               < open_positions[symbol].entry_price * 100
        /\ open_positions[symbol].entry_price * 100
               < open_positions[symbol].take_profit

\* both symbols hold a position, bought at different prices
C21_Witness ==
    /\ DOMAIN open_positions = Symbols
    /\ DOMAIN positions = Symbols
    /\ \E s1, s2 \in Symbols :
           open_positions[s1].entry_price < open_positions[s2].entry_price

\* C22: when process_symbol has no price or no analysis of the symbol, it
\* sends no order and leaves the risk manager, the positions, the trade
\* history and the performance metrics as they were.
C22_UnavailableSnapshotIsSkipped ==
    [][(/\ last'.op = "process_symbol"
        /\ last'.price = 0 \/ last'.analysis = NoAnalysis) =>
          /\ last'.sent = <<>>
          /\ UNCHANGED <<daily_trades, daily_loss, open_positions, positions,
                         open_orders, trades_history, performance_metrics>>
      ]_vars

\* the symbol was skipped for want of an analysis, with its position due
\* for an exit at the price that was available
C22_Witness ==
    /\ last.op = "process_symbol"
    /\ last.fault = "none"
    /\ last.price > 0
    /\ last.analysis = NoAnalysis
    /\ last.symbol \in DOMAIN positions
    /\ ExitDue(last.symbol, last.price)

\* C23: check_trade_allowed gives the reason of the first limit that
\* fails, in the order daily trades, daily loss, position size, and
\* changes no field of the risk manager.
C23_FirstFailingCheckWins ==
    [][last'.op = "check_trade_allowed" =>
          /\ UNCHANGED <<daily_trades, daily_loss, open_positions>>
          /\ daily_trades >= max_trades_per_day
                 => last'.reason = "Maximum daily trades reached"
          /\ (/\ daily_trades < max_trades_per_day
              /\ daily_loss >= max_daily_loss)
                 => last'.reason = "Maximum daily loss reached"
          /\ (/\ daily_trades < max_trades_per_day
              /\ daily_loss < max_daily_loss
              /\ last'.size * last'.price > max_position_size)
                 => last'.reason = "Position size exceeds maximum allowed"
      ]_vars

\* a request that fails all three checks is refused for the daily trades
C23_Witness ==
    /\ last.op = "check_trade_allowed"
    /\ daily_trades >= max_trades_per_day
    /\ daily_loss >= max_daily_loss
    /\ last.size * last.price > max_position_size
    /\ ~last.allowed
    /\ last.reason = "Maximum daily trades reached"

\* C24: a sub-signal that is UNKNOWN or absent is left out of the vote:
\* the signal is BUY exactly when the BUY readings are more than half of
\* the known readings, and SELL exactly when the SELL readings are.
C24_UnknownIsExcluded ==
    last.op = "generate_signal" =>
        LET known == {k \in DOMAIN last.readings :
                         last.readings[k] # "UNKNOWN"}
            buys == Cardinality({k \in known : last.readings[k] = "BUY"})
            sells == Cardinality({k \in known : last.readings[k] = "SELL"})
        IN  /\ last.signal = "BUY" <=> 2 * buys > Cardinality(known)
            /\ last.signal = "SELL" <=> 2 * sells > Cardinality(known)

\* the formatted size is the size rounded down to the lot-size increment
RoundedDown(size, formatted_size) ==
    /\ formatted_size # None
    /\ formatted_size % Increment = 0
    /\ formatted_size <= size
    /\ size - formatted_size < Increment

\* C25, as claimed: for every positive size, format_size gives the size
\* rounded down to the increment: a multiple of the increment, not above
\* the size and less than one increment below it.
C25_RoundsDownEverySize ==
    (last.op = "format_size" /\ last.size > 0) =>
        RoundedDown(last.size, last.ret)

\* C25, amended: ... for every positive size that the decimal context can
\* hold at the increment; for the sizes above, format_size returns None.
C25_RoundsDownWithinPrecision ==
    (last.op = "format_size" /\ last.size > 0) =>
        IF last.size < DecimalLimit
        THEN RoundedDown(last.size, last.ret)
        ELSE last.ret = None

\* a size between two steps is formatted to the step below
C25_Witness ==
    /\ last.op = "format_size"
    /\ last.size > Increment
    /\ last.size % Increment # 0
    /\ last.ret = last.size - (last.size % Increment)
    /\ last.ret > 0

\* the orders of a call that the exchange confirmed
Confirmed(sent) == {i \in DOMAIN sent : sent[i].accepted}

\* C26: every order the exchange confirms adds exactly 1 to daily_trades,
\* and nothing else does: a confirmed buy leaves the risk record of the
\* symbol with the price as entry price, a confirmed sell leaves the
\* symbol without a risk record.
C26_EveryFillCountsOnce ==
    [][last'.op # "reset_daily_metrics" =>
          /\ daily_trades' = daily_trades + Cardinality(Confirmed(last'.sent))
          /\ \A i \in Confirmed(last'.sent) :
                 IF last'.sent[i].side = "buy"
                 THEN /\ last'.sent[i].symbol \in DOMAIN open_positions'
                      /\ open_positions'[last'.sent[i].symbol].entry_price
                             = last'.price
                 ELSE last'.sent[i].symbol \notin DOMAIN open_positions'
      ]_vars

\* a buy and the sell of the position were confirmed since the last reset:
\* daily_trades is 2
C26_Witness ==
    /\ last.op = "close_position"
    /\ Confirmed(last.sent) # {}
    /\ daily_trades = 2
    /\ next_order_id = 3
    /\ last.symbol \notin DOMAIN open_positions

\* the pnl of selling the position of the symbol at this price: (price -
\* entry price) * size, with the size the position was bought with
SellPnl(symbol, price) ==
    (price - open_positions[symbol].entry_price) * open_positions[symbol].size

\* C27: a confirmed sell with a negative pnl adds abs(pnl) to daily_loss,
\* one with a pnl of zero or more leaves daily_loss as it is, and no
\* operation other than the reset changes daily_loss otherwise.
C27_DailyLossIsTheSumOfLosses ==
    [][last'.op # "reset_daily_metrics" =>
          LET sells == {i \in Confirmed(last'.sent) :
                           last'.sent[i].side = "sell"}
          IN  IF sells = {}
              THEN daily_loss' = daily_loss
              ELSE \A i \in sells :
                       LET pnl == SellPnl(last'.sent[i].symbol, last'.price)
                       IN  daily_loss' =
                               IF pnl < 0 THEN daily_loss - pnl ELSE daily_loss
      ]_vars

\* the one position bought since the reset was sold below its entry price
\* and the loss is booked
C27_Witness ==
    /\ last.op = "close_position"
    /\ Confirmed(last.sent) # {}
    /\ daily_trades = 2
    /\ next_order_id = 3
    /\ daily_loss > 0
    /\ daily_loss % Increment = 0

\* C28: within min_trade_interval of the last signal-driven trade of a
\* symbol no order is sent on a signal for that symbol; the interval
\* starts anew with an order the exchange confirms and with nothing else.
C28_SignalTradesAreRateLimited ==
    [][last'.op = "signal" =>
          /\ (/\ last'.symbol \in DOMAIN last_trade_time
              /\ last_trade_time[last'.symbol] < min_trade_interval)
                 => last'.sent = <<>>
          /\ Confirmed(last'.sent) = {}
                 => last_trade_time' = last_trade_time
          /\ Confirmed(last'.sent) # {}
                 => /\ last'.symbol \in DOMAIN last_trade_time'
                    /\ last_trade_time'[last'.symbol] = 0
      ]_vars

\* a SELL signal for a position bought on a signal one tick ago is not
\* acted upon
C28_Witness ==
    /\ last.op = "signal"
    /\ last.signal = "SELL"
    /\ ~last.valid
    /\ last.sent = <<>>
    /\ last.symbol \in DOMAIN positions
    /\ last.symbol \in DOMAIN last_trade_time
    /\ last_trade_time[last.symbol] = 1

\* two fractions are the same number
SameNumber(a, b) == a.n * b.d = b.n * a.d

\* C29: recording a close with pnl > 0 sets average_win to total_pnl /
\* winning_trades and leaves losing_trades, largest_loss and average_loss
\* as they were; recording one with pnl <= 0 sets average_loss to
\* abs(total_pnl) / losing_trades and leaves winning_trades, largest_win
\* and average_win as they were.
C29_OtherSideUnchanged ==
    [][(last'.op = "record_trade" /\ last'.pnl # <<>>) =>
          IF last'.pnl[1] > 0
          THEN /\ SameNumber(performance_metrics'.average_win,
                             Frac(performance_metrics'.total_pnl,
                                  performance_metrics'.winning_trades))
               /\ performance_metrics'.losing_trades
                      = performance_metrics.losing_trades
               /\ performance_metrics'.largest_loss
                      = performance_metrics.largest_loss
               /\ SameNumber(performance_metrics'.average_loss,
                             performance_metrics.average_loss)
          ELSE /\ SameNumber(performance_metrics'.average_loss,
                             Frac(Abs(performance_metrics'.total_pnl),
                                  performance_metrics'.losing_trades))
               /\ performance_metrics'.winning_trades
                      = performance_metrics.winning_trades
               /\ performance_metrics'.largest_win
                      = performance_metrics.largest_win
               /\ SameNumber(performance_metrics'.average_win,
                             performance_metrics.average_win)
      ]_vars

\* C30: no metric is the result of a division by zero, and when
\* average_loss is 0 after a close is recorded, risk_reward_ratio is what
\* it was while the counters, total_pnl and win_rate are updated.
C30_NoDivisionByZero ==
    [][(last'.op = "record_trade" /\ last'.pnl # <<>>) =>
          /\ performance_metrics'.average_win.d # 0
          /\ performance_metrics'.average_loss.d # 0
          /\ performance_metrics'.win_rate.d # 0
          /\ performance_metrics'.risk_reward_ratio.d # 0
          /\ performance_metrics'.average_loss.n = 0 =>
                 /\ performance_metrics'.risk_reward_ratio
                        = performance_metrics.risk_reward_ratio
                 /\ performance_metrics'.total_trades
                        = performance_metrics.total_trades + 1
                 /\ performance_metrics'.total_pnl
                        = performance_metrics.total_pnl + last'.pnl[1]
                 /\ performance_metrics'.winning_trades
                        + performance_metrics'.losing_trades
                        = performance_metrics'.total_trades
                 /\ performance_metrics'.win_rate
                        = Frac(performance_metrics'.winning_trades * 100,
                               performance_metrics'.total_trades)
      ]_vars

\* a loss and the wins that make up for it: total_pnl is 0 with a losing
\* trade on record, average_loss is 0 and risk_reward_ratio still has the
\* value of the record before
C30_Witness ==
    /\ last.op = "record_trade"
    /\ last.pnl # <<>>
    /\ performance_metrics.losing_trades > 0
    /\ performance_metrics.total_pnl = 0
    /\ performance_metrics.average_loss.n = 0
    /\ performance_metrics.risk_reward_ratio.n > 0

\* the close records with a pnl in trades_history
Closes == {i \in DOMAIN trades_history :
              /\ trades_history[i].type = "close"
              /\ trades_history[i].pnl # <<>>}

\* C31: total_trades is winning_trades + losing_trades and is the number
\* of close records with a pnl in trades_history, and win_rate is
\* winning_trades / total_trades * 100 when total_trades > 0.
C31_CountersAgreeWithHistory ==
    /\ performance_metrics.total_trades
           = performance_metrics.winning_trades
                + performance_metrics.losing_trades
    /\ performance_metrics.total_trades = Cardinality(Closes)
    /\ performance_metrics.total_trades > 0 =>
           /\ performance_metrics.win_rate.d # 0
           /\ SameNumber(performance_metrics.win_rate,
                         Frac(performance_metrics.winning_trades * 100,
                              performance_metrics.total_trades))

\* an open, a winning close and a close without gain or loss are on record
C31_Witness ==
    /\ Len(trades_history) = 3
    /\ \E i \in DOMAIN trades_history : trades_history[i].type = "open"
    /\ \E i \in Closes : trades_history[i].pnl[1] = 0
    /\ performance_metrics.winning_trades = 1
    /\ performance_metrics.losing_trades = 1
    /\ performance_metrics.win_rate = Frac(100, 2)

\* the records a step appends to trades_history
NewRecords ==
    {trades_history'[i] : i \in DOMAIN trades_history' \ DOMAIN trades_history}

\* C32: a record of kind open has no pnl, and a record of kind close has
\* pnl = (exit price - entry price of the position it closes) * size of
\* that position.
C32_PnlOnlyOnCloseAndFromEntry ==
    [][\A r \in NewRecords :
          /\ r.type \in {"open", "close"}
          /\ r.type = "open" => r.pnl = <<>>
          /\ r.type = "close" =>
                /\ r.symbol \in DOMAIN positions
                /\ r.symbol \notin DOMAIN positions'
                /\ r.size = positions[r.symbol].size
                /\ r.pnl = <<(r.price - positions[r.symbol].entry_price)
                                * positions[r.symbol].size>>]_vars

\* an open record and the close record of the same position, sold above
\* its entry price
C32_Witness ==
    /\ last.op = "process_signal"
    /\ last.signal = "SELL"
    /\ Len(trades_history) >= 2
    /\ LET n == Len(trades_history)
       IN  /\ trades_history[n].type = "close"
           /\ trades_history[n - 1].type = "open"
           /\ trades_history[n - 1].pnl = <<>>
           /\ trades_history[n].symbol = trades_history[n - 1].symbol
           /\ trades_history[n].price > trades_history[n - 1].price
           /\ trades_history[n].pnl
                 = <<(trades_history[n].price - trades_history[n - 1].price)
                        * trades_history[n - 1].size>>

\* size units do not exceed balance * risk_per_trade
\*                             / (price * stop_loss_pct / 100)
WithinRisk(size, balance, price) ==
    size * price * stop_loss_pct <= balance * risk_per_trade_pct

\* size units do not exceed max_position_size / price
WithinCap(size, price) == size * price <= max_position_size

\* C33: for every positive balance and price, calculate_position_size
\* returns min(balance * risk_per_trade / (price * stop_loss_pct / 100),
\* max_position_size / price): in whole size units, the largest size
\* that exceeds neither term.
C33_SizeIsTheSmallerTerm ==
    (/\ last.op = "calculate_position_size"
     /\ last.balance > 0
     /\ last.price > 0) =>
        /\ WithinRisk(last.size, last.balance, last.price)
        /\ WithinCap(last.size, last.price)
        /\ \/ ~WithinRisk(last.size + 1, last.balance, last.price)
           \/ ~WithinCap(last.size + 1, last.price)

\* as in the example of the claim, the risk term is several times the
\* max_position_size term, and max_position_size / price is returned
C33_Witness ==
    /\ last.op = "calculate_position_size"
    /\ last.balance > 0
    /\ last.price > 0
    /\ last.size > 0
    /\ last.size * last.price = max_position_size
    /\ WithinRisk(2 * last.size, last.balance, last.price)

\* C34: once update_position has recorded a buy at p, check_exit_signals
\* returns 'stop_loss' for every price at or below
\* p * (1 - stop_loss_pct/100), 'take_profit' for every price at or above
\* p * (1 + take_profit_pct/100), None for every price strictly between
\* and for a symbol without a record; the call changes no state.
C34_ExitSignalFollowsTheLevels ==
    [][last'.op = "check_exit_signals" =>
          /\ UNCHANGED progVars
          /\ last'.symbol \notin DOMAIN open_positions =>
                 last'.signal = "None"
          /\ last'.symbol \in DOMAIN open_positions =>
                 LET p == open_positions[last'.symbol].entry_price
                     low == p * (100 - stop_loss_pct)
                     high == p * (100 + take_profit_pct)
                     price == last'.price * 100
                 IN  /\ price <= low => last'.signal = "stop_loss"
                     /\ price >= high => last'.signal = "take_profit"
                     /\ (low < price /\ price < high) =>
                            last'.signal = "None"]_vars

\* a price exactly on the stop-loss level of a recorded buy
C34_Witness ==
    /\ last.op = "check_exit_signals"
    /\ last.symbol \in DOMAIN open_positions
    /\ last.price * 100
          = open_positions[last.symbol].entry_price * (100 - stop_loss_pct)
    /\ last.signal = "stop_loss"

C36_LedgersAgreeOnSizeAndEntry ==
    /\ \A symbol \in DOMAIN positions \cap DOMAIN open_positions :
           /\ positions[symbol].size = open_positions[symbol].size
           /\ positions[symbol].entry_price
                 = open_positions[symbol].entry_price
    /\ (last.op = "open_position" /\ last.ret # None) =>
           \E i \in DOMAIN last.sent :
               /\ last.sent[i].side = "buy"
               /\ last.sent[i].symbol = last.symbol
               /\ last.sent[i].size = positions[last.symbol].size
               /\ last.sent[i].size = open_positions[last.symbol].size

\* the daily budget of the risk manager is used up
BudgetSpent ==
    \/ daily_trades >= max_trades_per_day
    \/ daily_loss >= max_daily_loss

\* C37: close_position on a symbol that is open submits the sell also when
\* daily_trades >= max_trades_per_day or daily_loss >= max_daily_loss.
C37_CloseIgnoresTheBudget ==
    [][(/\ last'.op = "close_position"
        /\ last'.symbol \in DOMAIN positions
        /\ BudgetSpent) =>
          \E i \in DOMAIN last'.sent :
              /\ last'.sent[i].side = "sell"
              /\ last'.sent[i].symbol = last'.symbol]_vars

\* a position closed by an order the exchange confirmed, with the trade
\* limit of the day reached before the close
C37_Witness ==
    /\ last.op = "close_position"
    /\ last.ret # None
    /\ \E i \in DOMAIN last.sent : last.sent[i].side = "sell"
    /\ last.symbol \notin DOMAIN positions
    /\ daily_trades > max_trades_per_day

\* the notional of every buy order the call submitted is within
\* max_position_size (the first half of C38)
SubmittedNotionalWithinLimit ==
    \A i \in DOMAIN last.sent :
        last.sent[i].side = "buy" =>
            last.sent[i].size * last.price <= max_position_size

\* C38: the notional of every buy order submitted is at most
\* max_position_size, and every size calculate_position_size returns for
\* a positive balance and price passes the position-size check of
\* check_trade_allowed at the same price.  The formula is the second
\* part, in the arithmetic of the code.
C38_CalculatedSizePassesTheCheck ==
    (last.op = "check_trade_allowed" /\ last.limit > 0) => last.allowed

\* the symbols whose position the step closes
ClosedByStep == DOMAIN positions \ DOMAIN positions'

\* C39: every successful close of a position, by a SELL signal or by a
\* stop-loss / take-profit exit in check_positions, appends exactly one
\* close record to trades_history and updates performance_metrics once.
C39_EveryCloseIsRecorded ==
    [][\A symbol \in ClosedByStep :
          /\ Len(trades_history') = Len(trades_history) + 1
          /\ trades_history'[Len(trades_history')].type = "close"
          /\ trades_history'[Len(trades_history')].symbol = symbol
          /\ performance_metrics'.total_trades
                = performance_metrics.total_trades + 1]_vars

====
